---- MODULE Spec2Model ----
(***************************************************************************)
(* WeFlow: the HTTP message API's cursor pagination (HttpService), the     *)
(* WASM keystream service (WasmService) and the chat_room.ext_buffer       *)
(* nickname parser (GroupAnalyticsService).                                *)
(*                                                                         *)
(* Strings are sequences of UTF-16 code units, buffers are sequences of    *)
(* bytes.  Every action is one run-to-completion segment of the event      *)
(* loop: the code between two awaits.                                      *)
(***************************************************************************)
EXTENDS Integers, Sequences, FiniteSets, TLC

VARIABLES
    \* ---- HttpService.handleMessages / fetchMessagesBatch ----
    mpc,          \* where the request is: idle, open, fetch, close, respond, done
    nRows,        \* number of rows the store holds in the requested time range
    req,          \* the parsed query parameters of handleMessages
    allRows,      \* fetchMessagesBatch: accumulated rows
    hasMore,      \* fetchMessagesBatch: loop flag
    skipped,      \* fetchMessagesBatch: rows discarded against offset
    pending,      \* completion of the inner try block, held while finally runs
    fmbResult,    \* what fetchMessagesBatch resolved with
    page,         \* handleMessages: messages / hasMore after the keyword pass
    resp,         \* the HTTP response written
    cur,          \* the store's cursor: what was asked of it and what it delivered
    \* ---- WasmService ----
    wasmLoaded,        \* this.wasmLoaded
    initPromise,       \* this.initPromise: null, pending, resolved or rejected
    module,            \* this.module: what the loader script left in Module
    capturedKeystream, \* this.capturedKeystream: null, or the bytes copied
    heap,              \* Module.HEAPU8, the module's linear memory
    loaderRuns,        \* how many times the loader script was run
    joined,            \* some call arrived while the initialisation was in flight
    settled,           \* the getKeystream call that settled last, and how
    calls,             \* the getKeystream calls, by call number
    \* ---- GroupAnalyticsService: group nicknames ----
    ppc,          \* room (query pending), scan (inside the for loop) or done
    extBuffer,    \* the bytes of chat_room.ext_buffer
    candidates,   \* the candidate identifiers the caller passes
    scanIndex,    \* i of the for loop
    prevIndex,    \* i at the start of the latest iteration
    iters,        \* loop iterations executed
    nicknameMap,  \* the table being built
    roomResult,   \* what getGroupNicknamesForRoom gave its caller
    accepted,     \* the records the scan accepted so far, in order
    lookup,       \* lookupCandidates of the member being resolved
    groupNickname, \* what resolveGroupNicknameByCandidates returned for it
    \* ---- SnsPage: MediaItem ----
    media,         \* the media prop: url, thumb, livePhoto
    mounted,       \* the component is mounted
    effects,       \* how many times the effect has run; the latest run is live
    inflight,      \* requests and video elements whose callbacks are still to come
    error,         \* useState error
    thumbSrc,      \* useState thumbSrc
    videoPath,     \* useState videoPath
    liveVideoPath, \* useState liveVideoPath
    isDecrypting,  \* useState isDecrypting
    lastEvent,     \* what the handler that ran last was given
    \* ---- readVarint on its own ----
    vpc,           \* call or done
    vBuffer,       \* buffer
    vOffset,       \* offset
    vLimit,        \* limit
    vResult,       \* what readVarint returned
    \* ---- HttpService.fetchMessagesBatch: calls running side by side ----
    fetcher,       \* the locals of each call: cursor, allRows, hasMore, skipped
    cursors,       \* the store's cursors by handle: who asked what of each
    \* ---- GroupAnalyticsService.parallelLimit ----
    plpc,          \* new, running, resolved or rejected
    plItems,       \* items.length
    plLimit,       \* limit
    currentIndex,  \* let currentIndex
    results,       \* const results; 0 is a slot not written yet
    workers,       \* the runNext calls: the index each awaits fn for, or done / failed
    invoked,       \* how many times fn was called for each index
    returned,      \* the value fn resolved with for each index; 0 is none yet
    completed,     \* the indexes in the order their fn invocations resolved
    \* ---- WindowsHelloService.verify ----
    verificationPromise, \* this.verificationPromise: 0 is null, else the request held
    verifyRequests,      \* the wcdbService.verifyUser requests issued, in order
    verifyCalls,         \* the verify calls made, in order
    \* ---- HttpService.start / stop ----
    server,        \* this.server: 0 is null, else the server held
    running,       \* this.running
    port,          \* this.port
    servers,       \* every server created: its port and whether it listens
    closing,       \* the servers whose close callback is still to come, one per stop
    stopCalls,     \* stop calls made
    serverEvent,   \* what happened last: a start or stop call, or what resolved
    \* ---- SnsPage ----
    posts,             \* posts: the ids of the posts listed, in order
    loading,           \* loading
    loadingNewer,      \* loadingNewer
    snsHasMore,        \* hasMore
    hasNewer,          \* hasNewer
    loadingRef,        \* loadingRef.current
    selectedUsernames, \* selectedUsernames
    searchKeyword,     \* searchKeyword
    jumpTargetDate,    \* jumpTargetDate: 0 is undefined, else the start of the day
    timelineCall,      \* the getTimeline call loadPosts awaits, with what it closed over
    filterChanges,     \* filter changes made
    timelineFailed,    \* whether some getTimeline call failed or threw
    fetchedFor,        \* the filters the results last put in posts were fetched for
    snsEvent,          \* what happened last
    \* ---- LockScreen ----
    lockpc,            \* mounted (the mount effect is still to run) or started
    password,          \* password
    lockError,         \* error
    isVerifying,       \* isVerifying
    isUnlocked,        \* isUnlocked
    showHello,         \* showHello
    storedHash,        \* what configService.getAuthPassword() resolves with
    helloCalls,        \* the auth.hello() calls made: pending or settled
    submits,           \* the handlePasswordSubmit calls that passed the guard
    timers,            \* the setTimeout callbacks of handleUnlock still to run
    onUnlockCalls,     \* how many times onUnlock was called
    unlockedBy         \* what each handleUnlock call followed

msgVars == <<mpc, nRows, req, allRows, hasMore, skipped, pending, fmbResult, page, resp, cur>>

ksVars == <<wasmLoaded, initPromise, module, capturedKeystream, heap, loaderRuns,
           joined, settled, calls>>

nickVars == <<ppc, extBuffer, candidates, scanIndex, prevIndex, iters, nicknameMap, roomResult,
             accepted, lookup, groupNickname>>

mediaVars == <<media, mounted, effects, inflight, error, thumbSrc, videoPath, liveVideoPath,
              isDecrypting, lastEvent>>

varintVars == <<vpc, vBuffer, vOffset, vLimit, vResult>>

cursorVars == <<fetcher, cursors>>

coreVars == <<msgVars, ksVars, nickVars, mediaVars, varintVars>>

plVars == <<plpc, plItems, plLimit, currentIndex, results, workers, invoked, returned,
           completed>>

helloVars == <<verificationPromise, verifyRequests, verifyCalls>>

serverVars == <<server, running, port, servers, closing, stopCalls, serverEvent>>

snsVars == <<posts, loading, loadingNewer, snsHasMore, hasNewer, loadingRef, selectedUsernames,
            searchKeyword, jumpTargetDate, timelineCall, filterChanges, timelineFailed,
            fetchedFor, snsEvent>>

lockVars == <<lockpc, password, lockError, isVerifying, isUnlocked, showHello, storedHash,
             helloCalls, submits, timers, onUnlockCalls, unlockedBy>>

extVars == <<cursorVars, plVars, helloVars, serverVars, snsVars, lockVars>>

besidesCursors == <<coreVars, plVars, helloVars, serverVars, snsVars, lockVars>>

besidesParallel == <<coreVars, cursorVars, helloVars, serverVars, snsVars, lockVars>>

besidesHello == <<coreVars, cursorVars, plVars, serverVars, snsVars, lockVars>>

besidesServer == <<coreVars, cursorVars, plVars, helloVars, snsVars, lockVars>>

besidesSns == <<coreVars, cursorVars, plVars, helloVars, serverVars, lockVars>>

besidesLock == <<coreVars, cursorVars, plVars, helloVars, serverVars, snsVars>>

auxVars == <<mediaVars, varintVars, extVars>>

vars == <<msgVars, ksVars, nickVars, auxVars>>

(***************************************************************************)
(* Bounds of the model.                                                    *)
(***************************************************************************)
MaxRows == 5        \* rows in the time range
MaxLimitParam == 3  \* largest limit= query value tried (besides absent and 0)
MaxOffsetParam == 4 \* largest offset= query value tried
MaxCalls == 2       \* getKeystream calls made
MaxSize == 2        \* largest keystream length asked for
MaxVarintOffset == 2 \* largest offset readVarint is called with on its own
MaxEffects == 2     \* runs of the MediaItem effect (mount and re-renders)
MaxItems == 2       \* fragments an ext_buffer blob is put together from
MaxFetchers == 2    \* fetchMessagesBatch calls running side by side
MaxBatches == 2     \* batches a cursor delivers before it signals the end
MaxPlItems == 3     \* largest items.length parallelLimit is called with
MaxPlLimit == 2     \* largest limit parallelLimit is called with
MaxVerifyCalls == 3 \* verify calls made
MaxServers == 2     \* servers HttpService.start creates
MaxStops == 2       \* HttpService.stop calls made

(***************************************************************************)
(* Program constants.                                                      *)
(***************************************************************************)
MaxBatchSize == 500
DefaultLimit == 100
LimitCeiling == 10000
KeywordQueryLimit == 10000
\* Number.MAX_SAFE_INTEGER is 2^53 - 1; the model's integers end at 2^31 - 1, far
\* above every offset tried.
MaxSafeInteger == 2147483647

Min(a, b) == IF a < b THEN a ELSE b
Max(a, b) == IF a > b THEN a ELSE b

\* Array.prototype.slice(from, to) for 0 <= from, 0 <= to.
Slice(s, from, to) ==
    SubSeq(s, Min(from, Len(s)) + 1, Min(to, Len(s)))

(***************************************************************************)
(* Characters.  String.prototype.toLowerCase and trim on the code units    *)
(* the model uses (ASCII, CJK ideographs, U+FFFD).                         *)
(***************************************************************************)
ToLowerChar(c) == IF c >= 65 /\ c <= 90 THEN c + 32 ELSE c

ToLowerCase(s) == [i \in 1..Len(s) |-> ToLowerChar(s[i])]

\* WhiteSpace and LineTerminator code units, as String.prototype.trim drops them.
IsWhiteSpace(c) ==
    \/ c \in {9, 10, 11, 12, 13, 32, 160, 5760, 8232, 8233, 8239, 8287, 12288, 65279}
    \/ (c >= 8192 /\ c <= 8202)

RECURSIVE TrimStart(_)
TrimStart(s) ==
    IF s # <<>> /\ IsWhiteSpace(Head(s)) THEN TrimStart(Tail(s)) ELSE s

RECURSIVE TrimEnd(_)
TrimEnd(s) ==
    IF s # <<>> /\ IsWhiteSpace(s[Len(s)]) THEN TrimEnd(SubSeq(s, 1, Len(s) - 1)) ELSE s

Trim(s) == TrimEnd(TrimStart(s))

\* String.prototype.includes
Includes(s, t) ==
    \E i \in 0..(Len(s) - Len(t)) : SubSeq(s, i + 1, i + Len(t)) = t

(***************************************************************************)
(* The data of the message pagination model.                               *)
(***************************************************************************)
\* "Ab" / "zz", "" / "aB", "zz" / "ab", "b" / ""
Contents ==
    << [parsedContent |-> <<65, 98>>,   rawContent |-> <<122, 122>>],
       [parsedContent |-> <<>>,         rawContent |-> <<97, 66>>],
       [parsedContent |-> <<122, 122>>, rawContent |-> <<97, 98>>],
       [parsedContent |-> <<98>>,       rawContent |-> <<>>] >>

\* A row of the store is named by its position in the ordered time range.
\* chatService.mapRowsToMessagesForApi maps rows to messages one to one.
MessageOf(row) ==
    [localId |-> row] @@ Contents[((row - 1) % Len(Contents)) + 1]

mapRowsToMessagesForApi(rows) == [i \in 1..Len(rows) |-> MessageOf(rows[i])]

\* keyword= values: absent, " AB ", "B", "  " and "q"
KeywordParams == { <<>>, <<32, 65, 66, 32>>, <<66>>, <<32, 32>>, <<113>> }

\* limit= and offset= values: <<>> is an absent or non-numeric parameter (parseInt
\* gives NaN), <<n>> one that parses to n.
LimitParams == {<<>>} \cup {<<n>> : n \in 0..MaxLimitParam}
OffsetParams == {<<>>, <<-1>>} \cup {<<n>> : n \in 0..MaxOffsetParam}
FormatParams == {"", "chatlab", "xml"}

NoResult == [success |-> FALSE, messages |-> <<>>, hasMore |-> FALSE, thrown |-> FALSE]
NoPage == [messages |-> <<>>, hasMore |-> FALSE]
NoResp == [status |-> 0, messages |-> <<>>, hasMoreField |-> FALSE, hasMore |-> FALSE]
NoReq == [talker |-> FALSE, limit |-> 0, offset |-> 0, keyword |-> <<>>, format |-> "",
          queryOffset |-> 0, queryLimit |-> 0, batchSize |-> 0]
NewCursor == [opens |-> 0, opened |-> FALSE, fetches |-> 0, closes |-> 0, pos |-> 0,
              outstanding |-> FALSE, batches |-> 0, lastSignal |-> FALSE,
              failed |-> FALSE, threw |-> FALSE, mapped |-> FALSE,
              closeThrew |-> FALSE]

(***************************************************************************)
(* HttpService helpers.                                                    *)
(***************************************************************************)
parseIntParam(value, defaultValue, min, max) ==
    IF value = <<>> THEN defaultValue ELSE Min(Max(value[1], min), max)

\* const batchSize = Math.min(limit, 500)
BatchSizeFor(limit) == Min(limit, MaxBatchSize)

\* while (allRows.length < limit && hasMore)
LoopContinues(rows, limit, more) == Len(rows) < limit /\ more

SkipOffsetForgetsSkipped(rows, skip, offset) ==
    IF skip < offset
    THEN LET remaining == offset - skip IN
         IF remaining >= Len(rows)
         THEN [rows |-> <<>>, skipped |-> skip + Len(rows)]
         ELSE [rows |-> Slice(rows, remaining, Len(rows)), skipped |-> skip]
    ELSE [rows |-> rows, skipped |-> skip]

\* The offset handling of one batch: what is appended, and the new skipped.
SkipOffset(rows, skip, offset) ==
    IF skip < offset
    THEN LET remaining == offset - skip IN
         IF remaining >= Len(rows)
         THEN [rows |-> <<>>, skipped |-> skip + Len(rows)]
         ELSE [rows |-> Slice(rows, remaining, Len(rows)), skipped |-> offset]
    ELSE [rows |-> rows, skipped |-> skip]

TrimRows(rows, limit) == Slice(rows, 0, limit)

FinalHasMoreCursorOnly(more, rows, limit) == more

FinalHasMore(more, rows, limit) == more \/ Len(rows) > limit

KeywordMatchesCaseSensitive(msg, keyword) ==
    LET content == IF msg.parsedContent # <<>> THEN msg.parsedContent ELSE msg.rawContent
    IN Includes(content, keyword)

\* (msg.parsedContent || msg.rawContent || '').toLowerCase().includes(keyword)
KeywordMatches(msg, keyword) ==
    LET content == IF msg.parsedContent # <<>> THEN msg.parsedContent ELSE msg.rawContent
    IN Includes(ToLowerCase(content), keyword)

KeywordFilter(messages, keyword) ==
    LET P(m) == KeywordMatches(m, keyword) IN SelectSeq(messages, P)

KeywordPage(messages, keyword, offset, limit) ==
    LET filtered == KeywordFilter(messages, keyword)
        endIndex == offset + limit
    IN [messages |-> Slice(filtered, offset, endIndex),
        hasMore |-> Len(filtered) > endIndex]

QueryOffset(keyword, offset) == IF keyword # <<>> THEN 0 ELSE offset
QueryLimit(keyword, limit) == IF keyword # <<>> THEN KeywordQueryLimit ELSE limit

(***************************************************************************)
(* handleMessages, up to the first await inside fetchMessagesBatch.        *)
(***************************************************************************)
HandleMessages(talker, limitParam, offsetParam, keywordParam, formatParam) ==
    /\ mpc = "idle"
    /\ LET limit == parseIntParam(limitParam, DefaultLimit, 1, LimitCeiling)
           offset == parseIntParam(offsetParam, 0, 0, MaxSafeInteger)
           keyword == ToLowerCase(Trim(keywordParam))
           format == IF formatParam # "" THEN formatParam ELSE "json"
           qo == QueryOffset(keyword, offset)
           ql == QueryLimit(keyword, limit)
       IN /\ req' = [talker |-> talker, limit |-> limit, offset |-> offset,
                     keyword |-> keyword, format |-> format,
                     queryOffset |-> qo, queryLimit |-> ql,
                     batchSize |-> BatchSizeFor(ql)]
          /\ IF ~talker \/ format \notin {"json", "chatlab"}
             THEN /\ resp' = [NoResp EXCEPT !.status = 400]
                  /\ mpc' = "done"
                  /\ cur' = cur
             ELSE /\ resp' = resp
                  /\ mpc' = "open"
                  /\ cur' = [cur EXCEPT !.opens = @ + 1]
    /\ UNCHANGED <<nRows, allRows, hasMore, skipped, pending, fmbResult, page>>
    /\ UNCHANGED <<ksVars, nickVars, auxVars>>

EnterFinallyOnlyOnReturn(c, completion) ==
    /\ pending' = completion
    /\ cur' = IF completion.thrown THEN c ELSE [c EXCEPT !.closes = @ + 1]
    /\ mpc' = "close"

\* After the inner try block completed with `completion`: finally issues the close.
EnterFinally(c, completion) ==
    /\ pending' = completion
    /\ cur' = [c EXCEPT !.closes = @ + 1]
    /\ mpc' = "close"

\* The code after the while loop.
AfterLoop(c, rows, more, mapThrows) ==
    LET trimmedRows == TrimRows(rows, req.queryLimit)
        finalHasMore == FinalHasMore(more, rows, req.queryLimit)
    IN IF mapThrows
       THEN EnterFinally([c EXCEPT !.threw = TRUE], [NoResult EXCEPT !.thrown = TRUE])
       ELSE EnterFinally([c EXCEPT !.mapped = TRUE],
                         [success |-> TRUE,
                          messages |-> mapRowsToMessagesForApi(trimmedRows),
                          hasMore |-> finalHasMore, thrown |-> FALSE])

\* What handleMessages does with the result of fetchMessagesBatch.
HandleResult(result) ==
    /\ fmbResult' = result
    /\ IF ~result.success
       THEN /\ resp' = [NoResp EXCEPT !.status = 500]
            /\ page' = page
            /\ mpc' = "done"
       ELSE /\ page' = IF req.keyword # <<>>
                       THEN KeywordPage(result.messages, req.keyword, req.offset, req.limit)
                       ELSE [messages |-> result.messages, hasMore |-> result.hasMore]
            /\ resp' = resp
            /\ mpc' = "respond"

\* openMessageCursor settles.
OpenReturns(outcome, mapThrows) ==
    /\ mpc = "open"
    /\ \/ /\ outcome = "cursor"
          /\ allRows' = <<>>
          /\ hasMore' = TRUE
          /\ skipped' = 0
          /\ IF LoopContinues(<<>>, req.queryLimit, TRUE)
             THEN /\ ~mapThrows
                  /\ cur' = [cur EXCEPT !.opened = TRUE, !.fetches = @ + 1,
                                        !.outstanding = TRUE]
                  /\ mpc' = "fetch"
                  /\ pending' = pending
             ELSE AfterLoop([cur EXCEPT !.opened = TRUE], <<>>, TRUE, mapThrows)
          /\ UNCHANGED <<fmbResult, page, resp>>
       \/ /\ outcome \in {"fail", "throw"}
          /\ ~mapThrows
          /\ HandleResult(NoResult)
          /\ UNCHANGED <<allRows, hasMore, skipped, pending, cur>>
    /\ UNCHANGED <<nRows, req>>
    /\ UNCHANGED <<ksVars, nickVars, auxVars>>

FailedBatchKeepsHasMore(more) == more

\* hasMore = false; break, for a batch that failed or holds no rows
FailedBatchHasMore(more) == FALSE

\* fetchMessageBatch settles with k rows and the flag `more`, fails or throws.
FetchReturns(outcome, k, more, mapThrows) ==
    /\ mpc = "fetch"
    /\ LET got == [cur EXCEPT !.outstanding = FALSE] IN
       \/ /\ outcome = "throw"
          /\ ~mapThrows /\ k = 0 /\ ~more
          /\ EnterFinally([got EXCEPT !.threw = TRUE, !.lastSignal = FALSE],
                          [NoResult EXCEPT !.thrown = TRUE])
          /\ UNCHANGED <<allRows, hasMore, skipped>>
       \/ /\ outcome = "fail"
          /\ k = 0 /\ ~more
          /\ hasMore' = FailedBatchHasMore(hasMore)
          /\ UNCHANGED <<allRows, skipped>>
          /\ AfterLoop([got EXCEPT !.failed = TRUE, !.lastSignal = FALSE],
                       allRows, FailedBatchHasMore(hasMore), mapThrows)
       \/ /\ outcome = "rows"
          /\ k <= Min(req.batchSize, nRows - cur.pos)
          /\ (k = 0) => (cur.pos = nRows /\ ~more)
          /\ (cur.pos + k < nRows) => more
          /\ LET rows == [i \in 1..k |-> cur.pos + i]
                 c == [got EXCEPT !.pos = @ + k, !.batches = @ + 1, !.lastSignal = more]
             IN IF k = 0
                THEN /\ hasMore' = FALSE
                     /\ UNCHANGED <<allRows, skipped>>
                     /\ AfterLoop(c, allRows, FALSE, mapThrows)
                ELSE LET s == SkipOffset(rows, skipped, req.queryOffset)
                         acc == allRows \o s.rows
                     IN /\ hasMore' = more
                        /\ skipped' = s.skipped
                        /\ allRows' = acc
                        /\ IF LoopContinues(acc, req.queryLimit, more)
                           THEN /\ ~mapThrows
                                /\ cur' = [c EXCEPT !.fetches = @ + 1, !.outstanding = TRUE]
                                /\ UNCHANGED <<mpc, pending>>
                           ELSE AfterLoop(c, acc, more, mapThrows)
    /\ UNCHANGED <<nRows, req, fmbResult, page, resp>>
    /\ UNCHANGED <<ksVars, nickVars, auxVars>>

\* closeMessageCursor settles; fetchMessagesBatch resolves and handleMessages goes on.
CloseReturns(throws) ==
    /\ mpc = "close"
    /\ HandleResult(IF throws \/ pending.thrown THEN NoResult ELSE pending)
    /\ cur' = [cur EXCEPT !.closeThrew = throws]
    /\ UNCHANGED <<nRows, req, allRows, hasMore, skipped, pending>>
    /\ UNCHANGED <<ksVars, nickVars, auxVars>>

\* The rest of handleMessages: media export, display names, the response.
Respond(throws) ==
    /\ mpc = "respond"
    /\ resp' = IF throws
               THEN [NoResp EXCEPT !.status = 500]
               ELSE [status |-> 200, messages |-> page.messages,
                     hasMoreField |-> (req.format = "json"),
                     hasMore |-> (req.format = "json" /\ page.hasMore)]
    /\ mpc' = "done"
    /\ UNCHANGED <<nRows, req, allRows, hasMore, skipped, pending, fmbResult, page, cur>>
    /\ UNCHANGED <<ksVars, nickVars, auxVars>>

(***************************************************************************)
(* WasmService: the lazily initialised WASM module and getKeystream.       *)
(***************************************************************************)
Calls == 1..MaxCalls
Keys == {"k1", "k2"}
Sizes == 1..MaxSize
HeapLen == MaxSize + 1

KeySeed(key) == IF key = "k1" THEN 11 ELSE 140

\* The bytes WxIsaac64(key).generate(size) hands to wasm_isaac_generate: `size`
\* bytes that depend on the key.
IsaacOutput(key, size) == [i \in 1..size |-> (KeySeed(key) + 37 * i) % 256]

\* Where the module keeps its output buffer in linear memory.
OutputPtr == 1

NoModule == [loaded |-> FALSE, isaac |-> "none", hasDelete |-> FALSE]
NoCapture == [set |-> FALSE, bytes |-> <<>>]
EmptyHeap == [i \in 1..HeapLen |-> 0]
NoCall == [pc |-> "new", key |-> "k1", size |-> 0]
NoSettled == [call |-> 0, result |-> "none", error |-> "none", out |-> <<>>, stale |-> FALSE,
              instantiated |-> 0, generated |-> FALSE, released |-> 0,
              delivered |-> NoCapture]

\* Writing bytes into linear memory at ptr.
HeapWrite(h, ptr, bytes) ==
    [i \in 1..Len(h) |->
        IF i > ptr /\ i <= ptr + Len(bytes) THEN bytes[i - ptr] ELSE h[i]]

InitNeededIgnoresPromise(loaded, promise) == ~loaded

\* init(): if (this.wasmLoaded) return; if (this.initPromise) return this.initPromise
InitNeeded(loaded, promise) == ~loaded /\ promise = "null"

CaptureRegionOneShort(h, ptr, size) ==
    [set |-> TRUE, bytes |-> SubSeq(h, ptr + 1, ptr + size - 1)]

\* wasm_isaac_generate(ptr, size): new Uint8Array(new Uint8Array(HEAPU8.buffer, ptr, size))
wasm_isaac_generate(h, ptr, size) ==
    [set |-> TRUE, bytes |-> SubSeq(h, ptr + 1, ptr + size)]

KeepCapture(captured) == captured

\* this.capturedKeystream = null
ResetCapture(captured) == NoCapture

ReverseForgotten(bytes) == bytes

\* reversed.reverse()
Reverse(bytes) == [i \in 1..Len(bytes) |-> bytes[Len(bytes) + 1 - i]]

CaptureUsableAlways(captured) == TRUE

\* if (this.capturedKeystream)
CaptureUsable(captured) == captured.set

\* this.module.WxIsaac64, after the fallback to this.module.asm.WxIsaac64
HasWxIsaac64(m) == m.isaac \in {"Module", "asm"}

LoaderFailedForgotten(promise) == "null"

\* catch (error) { reject(error) }: this.initPromise stays assigned, now rejected
LoaderFailed(promise) == "rejected"

\* getKeystream is called: init() runs up to `await this.init()`.
\* loader: what running the loader script does, should init() run it.
GetKeystream(c, key, size, loader) ==
    /\ calls[c].pc = "new"
    /\ \A d \in Calls : d < c => calls[d].pc # "new"
    /\ calls' = [calls EXCEPT ![c] = [pc |-> "awaitInit", key |-> key, size |-> size]]
    /\ joined' = (joined \/ initPromise = "pending")
    /\ IF InitNeeded(wasmLoaded, initPromise)
       THEN /\ loaderRuns' = loaderRuns + 1
            /\ IF loader.throws
               THEN /\ loader.isaac = "none" /\ ~loader.hasDelete
                    /\ initPromise' = LoaderFailed(initPromise)
                    /\ module' = module
               ELSE /\ initPromise' = "pending"
                    /\ module' = [loaded |-> TRUE, isaac |-> loader.isaac,
                                  hasDelete |-> loader.hasDelete]
       ELSE /\ loader = [throws |-> FALSE, isaac |-> "Module", hasDelete |-> TRUE]
            /\ UNCHANGED <<loaderRuns, initPromise, module>>
    /\ UNCHANGED <<wasmLoaded, capturedKeystream, heap, settled>>
    /\ UNCHANGED <<msgVars, nickVars, auxVars>>

\* Module.onRuntimeInitialized
OnRuntimeInitialized ==
    /\ module.loaded
    /\ ~wasmLoaded
    /\ wasmLoaded' = TRUE
    /\ initPromise' = IF initPromise = "pending" THEN "resolved" ELSE initPromise
    /\ UNCHANGED <<module, capturedKeystream, heap, loaderRuns, joined, settled, calls>>
    /\ UNCHANGED <<msgVars, nickVars, auxVars>>

\* The call settles; what the module was asked to do for it is kept with it.
Settle(c, result, thrown, out, inst, gen, rel, delivered) ==
    /\ calls' = [calls EXCEPT ![c].pc = "done"]
    /\ settled' = [call |-> c, result |-> result, error |-> thrown, out |-> out,
                   stale |-> capturedKeystream.set, instantiated |-> inst,
                   generated |-> gen, released |-> rel, delivered |-> delivered]

\* `await this.init()` rejects: getKeystream rejects with the same error.
InitRejected(c) ==
    /\ calls[c].pc = "awaitInit"
    /\ initPromise = "rejected"
    /\ Settle(c, "rejected", "init", <<>>, 0, FALSE, 0, NoCapture)
    /\ UNCHANGED <<wasmLoaded, initPromise, module, capturedKeystream, heap, loaderRuns,
                   joined>>
    /\ UNCHANGED <<msgVars, nickVars, auxVars>>

\* `await this.init()` resolves: the rest of getKeystream runs without an await.
\* run.ctor / run.generate: "ok" or "throws"; run.callback: whether generate calls
\* wasm_isaac_generate; run.freed: whether the output memory is overwritten once
\* the cipher object is deleted.
Generate(c, run) ==
    /\ calls[c].pc = "awaitInit"
    /\ initPromise = "resolved"
    /\ LET key == calls[c].key
           size == calls[c].size
           reset == ResetCapture(capturedKeystream)
           output == IsaacOutput(key, size)
           written == HeapWrite(heap, OutputPtr, output)
       IN IF ~HasWxIsaac64(module)
          THEN /\ run = [ctor |-> "ok", generate |-> "ok", callback |-> FALSE,
                         freed |-> FALSE]
               /\ Settle(c, "rejected", "noWxIsaac64", <<>>, 0, FALSE, 0, NoCapture)
               /\ UNCHANGED <<capturedKeystream, heap>>
          ELSE IF run.ctor = "throws"
          THEN /\ run.generate = "ok" /\ ~run.callback /\ ~run.freed
               /\ capturedKeystream' = reset
               /\ Settle(c, "rejected", "constructor", <<>>, 0, FALSE, 0, NoCapture)
               /\ heap' = heap
          ELSE IF run.generate = "throws"
          THEN /\ ~run.callback /\ ~run.freed
               /\ capturedKeystream' = reset
               /\ Settle(c, "rejected", "generate", <<>>, 1, FALSE, 0, NoCapture)
               /\ heap' = heap
          ELSE LET delivered == IF run.callback
                                THEN [set |-> TRUE, bytes |-> output]
                                ELSE NoCapture
                   captured == IF run.callback
                               THEN wasm_isaac_generate(written, OutputPtr, size)
                               ELSE reset
                   rel == IF module.hasDelete THEN 1 ELSE 0
               IN /\ run.freed => (module.hasDelete /\ run.callback)
                  /\ heap' = IF run.freed THEN EmptyHeap
                             ELSE IF run.callback THEN written ELSE heap
                  /\ capturedKeystream' = captured
                  /\ IF CaptureUsable(captured)
                     THEN Settle(c, "ok", "none", Reverse(captured.bytes), 1, TRUE, rel,
                                 delivered)
                     ELSE Settle(c, "rejected", "noCallback", <<>>, 1, TRUE, rel, delivered)
    /\ UNCHANGED <<wasmLoaded, initPromise, module, loaderRuns, joined>>
    /\ UNCHANGED <<msgVars, nickVars, auxVars>>

KeystreamIdle ==
    /\ wasmLoaded = FALSE
    /\ initPromise = "null"
    /\ module = NoModule
    /\ capturedKeystream = NoCapture
    /\ heap = EmptyHeap
    /\ loaderRuns = 0
    /\ joined = FALSE
    /\ settled = NoSettled
    /\ calls = [c \in Calls |-> NoCall]

Loaders == [throws : BOOLEAN, isaac : {"Module", "asm", "none"}, hasDelete : BOOLEAN]

Runs ==
    [ctor : {"ok", "throws"}, generate : {"ok", "throws"}, callback : BOOLEAN,
     freed : BOOLEAN]

(***************************************************************************)
(* GroupAnalyticsService: the chat_room.ext_buffer nickname parser.        *)
(* Buffer offsets are 0-based as in the code; At reads one byte.           *)
(***************************************************************************)
At(buffer, pos) == buffer[pos + 1]

IsContinuation(b) == b >= 128 /\ b <= 191

ReplacementChar == 65533

\* buffer.toString('utf8'): UTF-8 to UTF-16 code units, each maximal ill-formed
\* subsequence replaced by U+FFFD.
RECURSIVE Utf8From(_, _)
Utf8From(b, i) ==
    IF i > Len(b) THEN <<>>
    ELSE LET b0 == b[i]
             has1 == i + 1 <= Len(b)
             has2 == i + 2 <= Len(b)
             has3 == i + 3 <= Len(b)
         IN
         IF b0 < 128 THEN <<b0>> \o Utf8From(b, i + 1)
         ELSE IF b0 >= 194 /\ b0 <= 223 THEN
            IF has1 /\ IsContinuation(b[i + 1])
            THEN <<(b0 - 192) * 64 + (b[i + 1] - 128)>> \o Utf8From(b, i + 2)
            ELSE <<ReplacementChar>> \o Utf8From(b, i + 1)
         ELSE IF b0 >= 224 /\ b0 <= 239 THEN
            LET lo == IF b0 = 224 THEN 160 ELSE 128
                hi == IF b0 = 237 THEN 159 ELSE 191
            IN IF has1 /\ b[i + 1] >= lo /\ b[i + 1] <= hi
               THEN IF has2 /\ IsContinuation(b[i + 2])
                    THEN <<(b0 - 224) * 4096 + (b[i + 1] - 128) * 64 + (b[i + 2] - 128)>>
                             \o Utf8From(b, i + 3)
                    ELSE <<ReplacementChar>> \o Utf8From(b, i + 2)
               ELSE <<ReplacementChar>> \o Utf8From(b, i + 1)
         ELSE IF b0 >= 240 /\ b0 <= 244 THEN
            LET lo == IF b0 = 240 THEN 144 ELSE 128
                hi == IF b0 = 244 THEN 143 ELSE 191
            IN IF has1 /\ b[i + 1] >= lo /\ b[i + 1] <= hi
               THEN IF has2 /\ IsContinuation(b[i + 2])
                    THEN IF has3 /\ IsContinuation(b[i + 3])
                         THEN LET cp == (b0 - 240) * 262144 + (b[i + 1] - 128) * 4096
                                          + (b[i + 2] - 128) * 64 + (b[i + 3] - 128)
                                  v == cp - 65536
                              IN <<55296 + (v \div 1024), 56320 + (v % 1024)>>
                                     \o Utf8From(b, i + 4)
                         ELSE <<ReplacementChar>> \o Utf8From(b, i + 3)
                    ELSE <<ReplacementChar>> \o Utf8From(b, i + 2)
               ELSE <<ReplacementChar>> \o Utf8From(b, i + 1)
         ELSE <<ReplacementChar>> \o Utf8From(b, i + 1)

\* buffer.toString('utf8', start, end)
BufferToString(buffer, start, end) == Utf8From(SubSeq(buffer, start + 1, end), 1)

IsLetter(c) == (c >= 65 /\ c <= 90) \/ (c >= 97 /\ c <= 122)
IsDigit(c) == c >= 48 /\ c <= 57
\* \w
IsWordChar(c) == IsLetter(c) \/ IsDigit(c) \/ c = 95
\* [A-Za-z0-9_.@-]
IsIdChar(c) == IsWordChar(c) \/ c \in {46, 64, 45}
\* [一-鿿㐀-䶿]
IsCjk(c) == (c >= 19968 /\ c <= 40959) \/ (c >= 13312 /\ c <= 19903)
\* [\x00-\x1F\x7F]
IsControl(c) == (c >= 0 /\ c <= 31) \/ c = 127
\* the line terminators `.` does not match
IsLineTerminator(c) == c \in {10, 13, 8232, 8233}

StartsWith(s, t) == Len(s) >= Len(t) /\ SubSeq(s, 1, Len(t)) = t

\* "@chatroom" and "wxid_"
AtChatroom == <<64, 99, 104, 97, 116, 114, 111, 111, 109>>
WxidPrefix == <<119, 120, 105, 100, 95>>

\* rawNick.replace(/[\x00-\x1F\x7F]/g, '')
StripControl(s) == LET P(c) == ~IsControl(c) IN SelectSeq(s, P)

\* Number of leading code units of s that are not '_'.
RECURSIVE LeadingNonUnderscore(_)
LeadingNonUnderscore(s) ==
    IF s = <<>> \/ Head(s) = 95 THEN 0 ELSE 1 + LeadingNonUnderscore(Tail(s))

cleanAccountDirName(name) ==
    LET trimmed == Trim(name) IN
    IF trimmed = <<>> THEN trimmed
    ELSE IF StartsWith(ToLowerCase(trimmed), WxidPrefix)
    THEN \* /^(wxid_[^_]+)/i
         LET n == LeadingNonUnderscore(SubSeq(trimmed, 6, Len(trimmed)))
         IN IF n >= 1 THEN SubSeq(trimmed, 1, 5 + n) ELSE trimmed
    ELSE \* /^(.+)_([a-zA-Z0-9]{4})$/
         LET n == Len(trimmed)
             suffix == /\ n >= 6
                       /\ trimmed[n - 4] = 95
                       /\ \A i \in (n - 3)..n : IsLetter(trimmed[i]) \/ IsDigit(trimmed[i])
                       /\ \A i \in 1..(n - 5) : ~IsLineTerminator(trimmed[i])
         IN IF suffix THEN SubSeq(trimmed, 1, n - 5) ELSE trimmed

\* Array.from(set): the distinct values in insertion order.
RECURSIVE Distinct(_)
Distinct(s) ==
    IF s = <<>> THEN <<>>
    ELSE LET init == Distinct(SubSeq(s, 1, Len(s) - 1))
             x == s[Len(s)]
         IN IF \E i \in 1..Len(init) : init[i] = x THEN init ELSE Append(init, x)

RECURSIVE CandidateList(_)
CandidateList(values) ==
    IF values = <<>> THEN <<>>
    ELSE LET raw == Trim(Head(values))
             cleaned == cleanAccountDirName(raw)
         IN (IF raw = <<>> THEN <<>>
             ELSE IF cleaned # <<>> /\ cleaned # raw THEN <<raw, cleaned>>
             ELSE <<raw>>) \o CandidateList(Tail(values))

buildIdCandidates(values) == Distinct(CandidateList(values))

\* new Set(this.buildIdCandidates(candidates).map((id) => id.toLowerCase()))
CandidateSet(values) ==
    LET ids == buildIdCandidates(values)
    IN {ToLowerCase(ids[i]) : i \in 1..Len(ids)}

\* A JavaScript number that holds a non-negative integer below 2^57, kept as two
\* limbs: the number is hi * 2^28 + lo with lo < 2^28.
Limb == 268435456

RECURSIVE Pow2(_)
Pow2(n) == IF n = 0 THEN 1 ELSE 2 * Pow2(n - 1)

Zero == [hi |-> 0, lo |-> 0]

\* hi * 2^28 + lo with lo brought back below 2^28
Carry(hi, lo) ==
    IF lo >= Limb THEN [hi |-> hi + 1, lo |-> lo - Limb] ELSE [hi |-> hi, lo |-> lo]

\* lo rounded to the nearest multiple of unit, a tie going to the even multiple
RoundLow(lo, unit) ==
    IF 2 * (lo % unit) > unit \/ (2 * (lo % unit) = unit /\ (lo \div unit) % 2 = 1)
    THEN lo - (lo % unit) + unit
    ELSE lo - (lo % unit)

\* The nearest double of hi * 2^28 + lo, ties to even: a double keeps 53 bits, so
\* from 2^53 on the low 1, 2 or 3 bits are rounded away.
RoundToDouble(n) ==
    IF n.hi < Pow2(25) THEN n
    ELSE Carry(n.hi, RoundLow(n.lo, IF n.hi < Pow2(26) THEN 2 ELSE IF n.hi < Pow2(27) THEN 4 ELSE 8))

NumberAddExact(a, b) == Carry(a.hi + b.hi, a.lo + b.lo)

\* a + b
NumberAdd(a, b) == RoundToDouble(NumberAddExact(a, b))

\* n > k for a small integer k
NumberGT(n, k) == n.hi > 0 \/ n.lo > k

VarintTermUnmasked(byte, shift) ==
    IF shift < 28 THEN [hi |-> 0, lo |-> byte * Pow2(shift)]
    ELSE [hi |-> byte * Pow2(shift - 28), lo |-> 0]

\* (byte & 0x7f) * Math.pow(2, shift), shift a multiple of 7 up to 49
VarintTerm(byte, shift) ==
    IF shift < 28 THEN [hi |-> 0, lo |-> (byte % 128) * Pow2(shift)]
    ELSE [hi |-> (byte % 128) * Pow2(shift - 28), lo |-> 0]

\* The loop of readVarint from (value, shift, pos).
RECURSIVE VarintLoop(_, _, _, _, _)
VarintLoop(buffer, limit, value, shift, pos) ==
    IF pos < limit /\ shift <= 53
    THEN LET byte == At(buffer, pos)
             v == NumberAdd(value, VarintTerm(byte, shift))
         IN IF byte < 128
            THEN [ok |-> TRUE, value |-> v, next |-> pos + 1]
            ELSE VarintLoop(buffer, limit, v, shift + 7, pos + 1)
    ELSE [ok |-> FALSE, value |-> Zero, next |-> 0]

\* readVarint(buffer, offset, limit); ok = FALSE stands for null.
readVarint(buffer, offset, limit) == VarintLoop(buffer, limit, Zero, 0, offset)

isLikelyMemberId(value) ==
    LET id == Trim(value) IN
    /\ id # <<>>
    /\ ~Includes(id, AtChatroom)
    /\ Len(id) >= 4 /\ Len(id) <= 80
    /\ IsLetter(id[1])
    /\ \A i \in 2..Len(id) : IsIdChar(id[i])

normalizeGroupNickname(value) ==
    LET trimmed == Trim(value) IN
    IF trimmed = <<>> THEN <<>>
    ELSE IF \A i \in 1..Len(trimmed) : trimmed[i] \in {34, 39, 64} THEN <<>>
    ELSE trimmed

NicknameAlwaysLikely(value) == TRUE

isLikelyNickname(value) ==
    LET cleaned == normalizeGroupNickname(value) IN
    /\ cleaned # <<>>
    /\ ~( /\ StartsWith(ToLowerCase(cleaned), WxidPrefix)
          /\ Len(cleaned) >= 6
          /\ \A i \in 6..Len(cleaned) :
                LET c == ToLowerChar(cleaned[i])
                IN (c >= 97 /\ c <= 122) \/ IsDigit(c) \/ c = 95 )
    /\ ~Includes(cleaned, AtChatroom)
    /\ \E i \in 1..Len(cleaned) : IsCjk(cleaned[i]) \/ IsWordChar(cleaned[i])
    /\ (Len(cleaned) = 1 => (cleaned[1] >= 13312 /\ cleaned[1] <= 40959))

\* Map<string, string>: the entries in insertion order.
MapHas(map, key) == \E i \in 1..Len(map) : map[i].key = key

MapNeverSet(map, key, value) == map

\* if (!nicknameMap.has(key)) nicknameMap.set(key, value)
MapSetIfAbsent(map, key, value) ==
    IF MapHas(map, key) THEN map ELSE Append(map, [key |-> key, value |-> value])

\* groupNicknames.get(id) || ''
MapGet(map, key) ==
    IF MapHas(map, key)
    THEN (CHOOSE e \in {map[i] : i \in 1..Len(map)} : e.key = key).value
    ELSE <<>>

\* for (const id of idCandidates) { exact = normalize(get(id) || ''); if (exact) return exact }
RECURSIVE ExactPass(_, _)
ExactPass(map, ids) ==
    IF ids = <<>> THEN <<>>
    ELSE LET exact == normalizeGroupNickname(MapGet(map, Head(ids)))
         IN IF exact # <<>> THEN exact ELSE ExactPass(map, Tail(ids))

\* The entries the inner loop counts for one candidate.
CaseInsensitiveMatches(map, id) ==
    LET lower == ToLowerCase(id)
        P(e) == ToLowerCase(e.key) = lower /\ normalizeGroupNickname(e.value) # <<>>
    IN SelectSeq(map, P)

AmbiguityIgnored(matched) == FALSE

\* if (matched > 1) return ''
Ambiguous(matched) == matched > 1

RECURSIVE LowerPass(_, _)
LowerPass(map, ids) ==
    IF ids = <<>> THEN <<>>
    ELSE LET matches == CaseInsensitiveMatches(map, Head(ids))
         IN IF Ambiguous(Len(matches)) THEN <<>>
            ELSE IF Len(matches) >= 1
            THEN normalizeGroupNickname(matches[Len(matches)].value)
            ELSE LowerPass(map, Tail(ids))

resolveGroupNicknameByCandidates(groupNicknames, lookupCandidates) ==
    LET idCandidates == buildIdCandidates(lookupCandidates)
        exact == ExactPass(groupNicknames, idCandidates)
    IN IF idCandidates = <<>> THEN <<>>
       ELSE IF exact # <<>> THEN exact
       ELSE LowerPass(groupNicknames, idCandidates)

\* The fragments blobs are put together from: whole records, records cut short,
\* and stray bytes.
Fragments ==
    { <<10, 4, 97, 98, 99, 100, 18, 2, 65, 108>>,              \* abcd -> "Al"
      <<10, 4, 65, 98, 99, 100, 18, 2, 66, 111>>,              \* Abcd -> "Bo"
      <<10, 4, 65, 66, 99, 100, 18, 2, 67, 121>>,              \* ABcd -> "Cy"
      <<10, 4, 97, 98, 99, 100, 18, 1, 64>>,                   \* abcd -> "@"
      <<10, 4, 119, 120, 121, 122, 18, 3, 228, 184, 173>>,     \* wxyz -> U+4E2D
      <<10, 4, 97, 98, 99, 100, 18, 6, 119, 120, 105, 100, 95, 120>>, \* abcd -> "wxid_x"
      <<10, 4, 119, 120, 121, 122, 18, 10>>,                   \* wxyz, 10-byte nickname follows
      <<10, 4, 97, 98, 99, 100, 18, 2, 65>>,                   \* nickname cut short
      <<10, 4, 97, 98>>,                                       \* identifier cut short
      <<10, 132, 0, 97, 98, 99, 100, 18>>,                     \* two-byte length, no nickname
      <<10, 128, 128, 128, 128, 128, 128, 128, 128>>,          \* length that never ends
      <<10>>, <<128>>, <<0>> }

\* The bytes of a length as a varint, low group first.
RECURSIVE EncodeVarint(_)
EncodeVarint(n) ==
    IF n < 128 THEN <<n>> ELSE <<128 + (n % 128)>> \o EncodeVarint(n \div 128)

\* One record: 0x0A, the length of id, id, 0x12, the length of nick, nick.
Record(id, nick) ==
    <<10>> \o EncodeVarint(Len(id)) \o id \o <<18>> \o EncodeVarint(Len(nick)) \o nick

\* Identifier fields: "abcd", "Abcd", "wxyz", "abcd " (trailing blank), "ab", "1bcd".
RecordIds ==
    { <<97, 98, 99, 100>>, <<65, 98, 99, 100>>, <<119, 120, 121, 122>>,
      <<97, 98, 99, 100, 32>>, <<97, 98>>, <<49, 98, 99, 100>> }

\* Nickname fields: "Al", " Al", "A\x01l", "A\x01", "@", "wxid_x", U+4E2D, "x" and
\* 129 times "a".
RecordNicks ==
    { <<65, 108>>, <<32, 65, 108>>, <<65, 1, 108>>, <<65, 1>>, <<64>>,
      <<119, 120, 105, 100, 95, 120>>, <<228, 184, 173>>, <<120>>,
      [i \in 1..129 |-> 97] }

RECURSIVE Blobs(_)
Blobs(n) ==
    IF n = 0 THEN {<<>>}
    ELSE LET shorter == Blobs(n - 1)
         IN shorter \cup {b \o f : b \in shorter, f \in Fragments}

\* The member and contact names a caller collects: none; "abcd"; " ABCD " and
\* "wxyz_ab12_cd34".
MemberNameLists ==
    { <<>>,
      << <<97, 98, 99, 100>> >>,
      << <<32, 65, 66, 67, 68, 32>>,
         <<119, 120, 121, 122, 95, 97, 98, 49, 50, 95, 99, 100, 51, 52>> >> }

\* nicknameCandidates: what the callers pass to getGroupNicknamesForRoom.
CandidateLists == {buildIdCandidates(names) : names \in MemberNameLists}

\* lookupCandidates of one member: none; "abcd"; "ABCD"; "WXYZ" and "abcd".
LookupLists ==
    { buildIdCandidates(names) :
        names \in { <<>>,
                    << <<97, 98, 99, 100>> >>,
                    << <<65, 66, 67, 68>> >>,
                    << <<87, 88, 89, 90>>, <<97, 98, 99, 100>> >> } }

NoRoomResult == [returned |-> FALSE, failure |-> FALSE, table |-> <<>>]

\* decodeExtBuffer: a Buffer or Uint8Array is taken as it is, a non-blank string is
\* decoded (hex, base64 or utf8) into some bytes, anything else gives null.
decodeExtBuffer(kind, bytes) ==
    IF kind \in {"buffer", "string"} THEN [ok |-> TRUE, bytes |-> bytes]
    ELSE [ok |-> FALSE, bytes |-> <<>>]

EveryoneCandidate(candidateSet, memberIdLower) == FALSE

\* candidateSet.size > 0 && !candidateSet.has(memberIdLower)
NotCandidate(candidateSet, memberIdLower) ==
    candidateSet # {} /\ memberIdLower \notin candidateSet

ResumeInsideIdentifier(idEnd) == idEnd - 2

\* i = idEnd - 1
ResumeAfterIdentifier(idEnd) == idEnd - 1

\* An iteration that stores nothing and leaves the index at i.
NoRecord(i, map) ==
    [i |-> i, map |-> map, accepted |-> FALSE, id |-> <<>>, nickname |-> <<>>]

\* The iteration from the nickname decoded out of its field on.
NicknameDecoded(map, memberId, memberIdLower, nickEnd, nickname) ==
    IF ~isLikelyNickname(nickname) THEN NoRecord(nickEnd - 1, map)
    ELSE [i |-> nickEnd - 1,
          map |-> MapSetIfAbsent(MapSetIfAbsent(map, memberId, nickname),
                                 memberIdLower, nickname),
          accepted |-> TRUE, id |-> memberId, nickname |-> nickname]

\* The iteration from the nickname's length, read after the 0x12 tag, on.
NicknameField(buf, map, memberId, memberIdLower, idEnd, nickLenInfo) ==
    LET afterId == NoRecord(ResumeAfterIdentifier(idEnd), map)
        nickLen == nickLenInfo.value
        nickStart == nickLenInfo.next
        nickEnd == nickStart + nickLen.lo
    IN
    IF ~nickLenInfo.ok THEN afterId
    ELSE IF ~NumberGT(nickLen, 0) \/ NumberGT(nickLen, 128) THEN afterId
    ELSE IF nickEnd > Len(buf) THEN afterId
    ELSE NicknameDecoded(map, memberId, memberIdLower, nickEnd,
             normalizeGroupNickname(Trim(StripControl(BufferToString(buf, nickStart, nickEnd)))))

\* The iteration from the identifier decoded out of its field on.
IdentifierDecoded(buf, i, map, candidateSet, idEnd, memberId, memberIdLower) ==
    LET afterId == NoRecord(ResumeAfterIdentifier(idEnd), map)
        cursor == idEnd
    IN
    IF ~isLikelyMemberId(memberId) THEN NoRecord(i, map)
    ELSE IF NotCandidate(candidateSet, memberIdLower) THEN afterId
    ELSE IF cursor >= Len(buf) \/ At(buf, cursor) # 18 THEN afterId
    ELSE NicknameField(buf, map, memberId, memberIdLower, idEnd,
                       readVarint(buf, cursor + 1, Len(buf)))

\* The trimmed identifier and its lower-case form.
IdentifierText(buf, i, map, candidateSet, idEnd, memberId) ==
    IdentifierDecoded(buf, i, map, candidateSet, idEnd, memberId, ToLowerCase(memberId))

\* The iteration from the identifier's length, read after the 0x0A tag, on.
IdentifierField(buf, i, map, candidateSet, idLenInfo) ==
    LET idLen == idLenInfo.value
        idStart == idLenInfo.next
        idEnd == idStart + idLen.lo
    IN
    IF ~idLenInfo.ok THEN NoRecord(i, map)
    ELSE IF ~NumberGT(idLen, 0) \/ NumberGT(idLen, 96) THEN NoRecord(i, map)
    ELSE IF idEnd > Len(buf) THEN NoRecord(i, map)
    ELSE IdentifierText(buf, i, map, candidateSet, idEnd,
                        Trim(BufferToString(buf, idStart, idEnd)))

\* One pass of the body of the for loop at index i: the index the body leaves in i
\* and the table.
ScanBody(buf, i, map, candidateSet) ==
    IF At(buf, i) # 10 THEN NoRecord(i, map)
    ELSE IdentifierField(buf, i, map, candidateSet, readVarint(buf, i + 1, Len(buf)))

AdvanceForgotten(i) == i

\* i += 1 of the for loop
Advance(i) == i + 1

\* for (...; i < buffer.length - 2; ...)
ScanContinues(buf, i) == i < Len(buf) - 2

\* catch (e) { return new Map() }: no failure of the query reaches the caller.
Propagates(outcome) == FALSE

\* getGroupNicknamesForRoom once wcdbService.execQuery has settled: outcome is
\* throw, fail, norows or row, kind what the row holds in ext_buffer.
GetGroupNicknamesForRoom(outcome, kind) ==
    /\ ppc = "room"
    /\ LET decoded == decodeExtBuffer(kind, extBuffer)
           empty == [returned |-> TRUE, failure |-> FALSE, table |-> <<>>]
       IN IF outcome = "throw"
          THEN /\ kind = "falsy"
               /\ roomResult' = [returned |-> ~Propagates(outcome),
                                 failure |-> Propagates(outcome), table |-> <<>>]
               /\ ppc' = "done"
          ELSE IF outcome \in {"fail", "norows"}
          THEN /\ kind = "falsy"
               /\ roomResult' = empty
               /\ ppc' = "done"
          ELSE IF ~decoded.ok \/ Len(decoded.bytes) = 0
          THEN /\ (kind = "string" => extBuffer = <<>>)
               /\ roomResult' = empty
               /\ ppc' = "done"
          ELSE /\ roomResult' = roomResult
               /\ ppc' = "scan"
    /\ UNCHANGED <<extBuffer, candidates, scanIndex, prevIndex, iters, nicknameMap>>
    /\ UNCHANGED <<accepted, lookup, groupNickname>>
    /\ UNCHANGED <<msgVars, ksVars, auxVars>>

\* The end of an iteration whose body left (i, map): the map is kept and i += 1.
IterationEnds(body) ==
    /\ scanIndex' = Advance(body.i)
    /\ nicknameMap' = body.map
    /\ accepted' = IF body.accepted
                   THEN Append(accepted, [id |-> body.id, nickname |-> body.nickname])
                   ELSE accepted

\* One iteration of the for loop of parseGroupNicknamesFromExtBuffer.
ScanStep ==
    /\ ppc = "scan"
    /\ ScanContinues(extBuffer, scanIndex)
    /\ IterationEnds(ScanBody(extBuffer, scanIndex, nicknameMap, CandidateSet(candidates)))
    /\ prevIndex' = scanIndex
    /\ iters' = iters + 1
    /\ UNCHANGED <<ppc, extBuffer, candidates, roomResult, lookup, groupNickname>>
    /\ UNCHANGED <<msgVars, ksVars, auxVars>>

\* The loop ends: parseGroupNicknamesFromExtBuffer returns the table.
ScanReturn ==
    /\ ppc = "scan"
    /\ ~ScanContinues(extBuffer, scanIndex)
    /\ roomResult' = [returned |-> TRUE, failure |-> FALSE, table |-> nicknameMap]
    /\ ppc' = "done"
    /\ UNCHANGED <<extBuffer, candidates, scanIndex, prevIndex, iters, nicknameMap>>
    /\ UNCHANGED <<accepted, lookup, groupNickname>>
    /\ UNCHANGED <<msgVars, ksVars, auxVars>>

\* A member is resolved against the table getGroupNicknamesForRoom returned.
ResolveMember(lookupCandidates) ==
    /\ ppc = "done"
    /\ roomResult.returned
    /\ lookup' = lookupCandidates
    /\ groupNickname' = resolveGroupNicknameByCandidates(roomResult.table, lookupCandidates)
    /\ ppc' = "resolved"
    /\ UNCHANGED <<extBuffer, candidates, scanIndex, prevIndex, iters, nicknameMap,
                   roomResult, accepted>>
    /\ UNCHANGED <<msgVars, ksVars, auxVars>>

NicknamesIdle ==
    /\ ppc = "room"
    /\ extBuffer = <<>>
    /\ candidates = <<>>
    /\ scanIndex = 0
    /\ prevIndex = -1
    /\ iters = 0
    /\ nicknameMap = <<>>
    /\ roomResult = NoRoomResult
    /\ accepted = <<>>
    /\ lookup = <<>>
    /\ groupNickname = <<>>

(***************************************************************************)
(* SnsPage: the MediaItem component.                                       *)
(***************************************************************************)
\* url values: "v.mp4", "video", "i.jpg", "vweixinthumb.mp4" and ''.
Urls == { <<118, 46, 109, 112, 52>>, <<118, 105, 100, 101, 111>>, <<105, 46, 106, 112, 103>>,
          <<118, 119, 101, 105, 120, 105, 110, 116, 104, 117, 109, 98, 46, 109, 112, 52>>, <<>> }

\* thumb values: '' and "t.jpg"
Thumbs == { <<>>, <<116, 46, 106, 112, 103>> }

\* livePhoto: absent, without a url, with a url
MediaItems == [url : Urls, thumb : Thumbs, livePhoto : {"none", "nourl", "url"}]

\* canvas.toDataURL(...) and result.dataUrl
DataUrl == <<100, 97, 116, 97, 58, 120>>

\* videoPath values: "file:/v" and "c:\v"
VideoPaths == { <<102, 105, 108, 101, 58, 47, 118>>, <<99, 58>> \o <<92>> \o <<118>> }

\* What sns.proxyImage resolves with, or that it rejects.
ProxyResults ==
    [settles : {"resolved"}, success : BOOLEAN, dataUrl : {<<>>, DataUrl},
     videoPath : {<<>>} \cup VideoPaths]
        \cup {[settles |-> "rejected", success |-> FALSE, dataUrl |-> <<>>, videoPath |-> <<>>]}

\* thumb || url
targetUrl(m) == IF m.thumb # <<>> THEN m.thumb ELSE m.url

\* url && (includes('snsvideodownload') || includes('.mp4') || includes('video'))
\*     && !includes('vweixinthumb')
isVideo(m) ==
    /\ m.url # <<>>
    /\ \/ Includes(m.url, <<115, 110, 115, 118, 105, 100, 101, 111, 100, 111, 119, 110, 108, 111, 97, 100>>)
       \/ Includes(m.url, <<46, 109, 112, 52>>)
       \/ Includes(m.url, <<118, 105, 100, 101, 111>>)
    /\ ~Includes(m.url, <<118, 119, 101, 105, 120, 105, 110, 116, 104, 117, 109, 98>>)

\* videoPath.startsWith('file:') ? videoPath : `file://${videoPath.replace(/\\/g, '/')}`
LocalUrl(path) ==
    IF StartsWith(path, <<102, 105, 108, 101, 58>>) THEN path
    ELSE <<102, 105, 108, 101, 58, 47, 47>> \o [i \in 1..Len(path) |-> IF path[i] = 92 THEN 47 ELSE path[i]]

\* thumbSrc || targetUrl
displaySrc == IF thumbSrc # <<>> THEN thumbSrc ELSE targetUrl(media)

NoFallback(target) == <<>>

\* setThumbSrc(targetUrl) when the image proxy reports failure
ProxyFailureFallback(target) == target

\* cancelled, as the closure of effect run r.run sees it
Cancelled(r) == ~mounted \/ r.run # effects

NoMedia == [url |-> <<>>, thumb |-> <<>>, livePhoto |-> "none"]

MediaIdle ==
    /\ media = NoMedia
    /\ mounted = FALSE
    /\ effects = 0
    /\ inflight = {}
    /\ error = FALSE
    /\ thumbSrc = <<>>
    /\ videoPath = <<>>
    /\ liveVideoPath = <<>>
    /\ isDecrypting = FALSE
    /\ lastEvent = "none"

\* The effect runs: on mount, and again when the media prop changes. The state is
\* reset and run() goes up to its await.
RunEffect(m) ==
    /\ effects < MaxEffects
    /\ effects > 0 => (mounted /\ m # media)
    /\ media' = m
    /\ mounted' = TRUE
    /\ effects' = effects + 1
    /\ error' = FALSE
    /\ thumbSrc' = <<>>
    /\ videoPath' = <<>>
    /\ liveVideoPath' = <<>>
    /\ isDecrypting' = isVideo(m)
    /\ inflight' = inflight \cup {[run |-> effects + 1,
                                     kind |-> IF isVideo(m) THEN "video" ELSE "image"]}
    /\ lastEvent' = "effect"
    /\ UNCHANGED <<msgVars, ksVars, nickVars, varintVars, extVars>>

\* The component unmounts: the cleanup of the effect sets cancelled.
Unmount ==
    /\ mounted
    /\ mounted' = FALSE
    /\ UNCHANGED <<media, effects, inflight, error, thumbSrc, videoPath, liveVideoPath,
                   isDecrypting, lastEvent>>
    /\ UNCHANGED <<msgVars, ksVars, nickVars, varintVars, extVars>>

\* run() after `await proxyImage(...)` of a video item.
VideoProxyReturns(r, result) ==
    /\ r \in inflight /\ r.kind = "video"
    /\ IF Cancelled(r)
       THEN /\ inflight' = inflight \ {r}
            /\ UNCHANGED <<error, thumbSrc, videoPath, liveVideoPath, isDecrypting, lastEvent>>
       ELSE IF result.settles = "rejected"
       THEN /\ inflight' = inflight \ {r}
            /\ error' = TRUE
            /\ isDecrypting' = FALSE
            /\ lastEvent' = "proxyRejected"
            /\ UNCHANGED <<thumbSrc, videoPath, liveVideoPath>>
       ELSE IF result.success /\ result.videoPath # <<>>
       THEN /\ videoPath' = LocalUrl(result.videoPath)
            /\ inflight' = (inflight \ {r}) \cup {[run |-> r.run, kind |-> "frame"]}
            /\ lastEvent' = "proxyOk"
            /\ UNCHANGED <<error, thumbSrc, liveVideoPath, isDecrypting>>
       ELSE /\ inflight' = inflight \ {r}
            /\ isDecrypting' = FALSE
            /\ error' = TRUE
            /\ lastEvent' = IF result.success THEN "proxyNoPath" ELSE "proxyFailed"
            /\ UNCHANGED <<thumbSrc, videoPath, liveVideoPath>>
    /\ UNCHANGED <<media, mounted, effects>>
    /\ UNCHANGED <<msgVars, ksVars, nickVars, varintVars, extVars>>

\* run() after `await proxyImage(...)` of an item that is not a video.
ImageProxyReturns(r, result) ==
    /\ r \in inflight /\ r.kind = "image"
    /\ IF Cancelled(r)
       THEN /\ inflight' = inflight \ {r}
            /\ UNCHANGED <<error, thumbSrc, videoPath, liveVideoPath, isDecrypting, lastEvent>>
       ELSE IF result.settles = "rejected"
       THEN /\ inflight' = inflight \ {r}
            /\ error' = TRUE
            /\ isDecrypting' = FALSE
            /\ lastEvent' = "proxyRejected"
            /\ UNCHANGED <<thumbSrc, videoPath, liveVideoPath>>
       ELSE /\ thumbSrc' = IF result.success
                           THEN IF result.dataUrl # <<>> THEN result.dataUrl
                                ELSE IF result.videoPath # <<>>
                                THEN LocalUrl(result.videoPath)
                                ELSE thumbSrc
                           ELSE ProxyFailureFallback(targetUrl(media))
            /\ inflight' = (inflight \ {r}) \cup
                               (IF media.livePhoto = "url"
                                THEN {[run |-> r.run, kind |-> "live"]} ELSE {})
            /\ lastEvent' = IF result.success THEN "proxyOk" ELSE "proxyFailed"
            /\ UNCHANGED <<error, videoPath, liveVideoPath, isDecrypting>>
    /\ UNCHANGED <<media, mounted, effects>>
    /\ UNCHANGED <<msgVars, ksVars, nickVars, varintVars, extVars>>

\* The live photo request settles (.then / .catch).
LiveProxyReturns(r, result) ==
    /\ r \in inflight /\ r.kind = "live"
    /\ inflight' = inflight \ {r}
    /\ IF ~Cancelled(r) /\ result.settles = "resolved" /\ result.success
          /\ result.videoPath # <<>>
       THEN /\ liveVideoPath' = LocalUrl(result.videoPath)
            /\ lastEvent' = "liveOk"
       ELSE UNCHANGED <<liveVideoPath, lastEvent>>
    /\ UNCHANGED <<media, mounted, effects, error, thumbSrc, videoPath, isDecrypting>>
    /\ UNCHANGED <<msgVars, ksVars, nickVars, varintVars, extVars>>

\* extractFirstFrame: the video element fires seeked (the frame is drawn, there is
\* no 2d context, or drawing throws) or error.
FrameEvent(r, event) ==
    /\ r \in inflight /\ r.kind = "frame"
    /\ inflight' = inflight \ {r}
    /\ IF Cancelled(r)
       THEN UNCHANGED <<thumbSrc, isDecrypting, lastEvent>>
       ELSE /\ thumbSrc' = IF event = "drawn" THEN DataUrl
                           ELSE IF event = "error" THEN targetUrl(media)
                           ELSE thumbSrc
            /\ isDecrypting' = FALSE
            /\ lastEvent' = "frame"
    /\ UNCHANGED <<media, mounted, effects, error, videoPath, liveVideoPath>>
    /\ UNCHANGED <<msgVars, ksVars, nickVars, varintVars, extVars>>

\* <img onError={() => setError(true)}>, rendered unless a video is decrypting.
ImgError ==
    /\ mounted
    /\ ~(isVideo(media) /\ isDecrypting)
    /\ ~error
    /\ error' = TRUE
    /\ lastEvent' = "imgError"
    /\ UNCHANGED <<media, mounted, effects, inflight, thumbSrc, videoPath, liveVideoPath,
                   isDecrypting>>
    /\ UNCHANGED <<msgVars, ksVars, nickVars, varintVars, extVars>>

(***************************************************************************)
(* readVarint applied to a buffer, an offset and a limit.                  *)
(***************************************************************************)
NoVarint == [ok |-> FALSE, value |-> Zero, next |-> 0]

VarintIdle ==
    /\ vpc = "call"
    /\ vBuffer = <<>>
    /\ vOffset = 0
    /\ vLimit = 0
    /\ vResult = NoVarint

\* Buffers readVarint is tried on: short values, continuation bytes that run into
\* the end, eight-byte values below and above 2^53, and nine continuation bytes.
VarintBuffers ==
    { <<>>, <<0>>, <<5>>, <<127>>, <<128>>, <<129, 1>>, <<200, 3, 7>>, <<128, 128, 0, 9>>,
      <<255, 255, 255, 127>>, <<128, 128, 128, 128, 1>>,
      <<255, 255, 255, 255, 255, 255, 255, 15>>,
      <<129, 128, 128, 128, 128, 128, 128, 16>>,
      <<131, 128, 128, 128, 128, 128, 128, 16>>,
      <<130, 128, 128, 128, 128, 128, 128, 32>>,
      <<255, 255, 255, 255, 255, 255, 255, 127>>,
      <<128, 128, 128, 128, 128, 128, 128, 128, 1>>,
      <<128, 129, 128, 128, 128, 128, 128, 128, 16>> }

\* readVarint(buffer, offset, limit) is called and returns.
ReadVarint ==
    /\ vpc = "call"
    /\ vResult' = readVarint(vBuffer, vOffset, vLimit)
    /\ vpc' = "done"
    /\ UNCHANGED <<vBuffer, vOffset, vLimit>>
    /\ UNCHANGED <<msgVars, ksVars, nickVars, mediaVars, extVars>>

(***************************************************************************)
(* HttpService.fetchMessagesBatch, several calls running side by side on   *)
(* the store's cursors.  The store hands out a new handle with every       *)
(* cursor it opens.                                                        *)
(***************************************************************************)
Fetchers == 1..MaxFetchers

\* The limits and offsets the calls are made with: the first page of one row, and
\* a page of two rows after one row skipped.
FetchRequests == { [limit |-> 1, offset |-> 0], [limit |-> 2, offset |-> 1] }

NoFetcher == [pc |-> "new", cursor |-> 0, target |-> 0, limit |-> 0, offset |-> 0,
              allRows |-> <<>>, hasMore |-> FALSE, skipped |-> 0, consumed |-> <<>>]

\* A cursor the store has just opened for call c.
OpenedFor(c) == [owner |-> c, outstanding |-> 0, delivered |-> 0, closes |-> 0,
                 users |-> {}, overlap |-> FALSE, lateFetch |-> FALSE]

SharedCursorUsed(own, latest) == latest

\* const cursor = cursorResult.cursor: the handle a call passes to the store is the
\* one its own open returned, whatever the store has handed out since.
CursorUsed(own, latest) == own

\* wcdbService.fetchMessageBatch(cursor) is called by c on handle t.
IssueFetch(cs, c, t) ==
    [cs EXCEPT ![t] = [@ EXCEPT !.outstanding = @ + 1,
                                !.users = @ \cup {c},
                                !.overlap = @ \/ cs[t].outstanding > 0,
                                !.lateFetch = @ \/ cs[t].closes > 0]]

\* wcdbService.closeMessageCursor(cursor) is called by c on handle t.
IssueClose(cs, c, t) ==
    [cs EXCEPT ![t] = [@ EXCEPT !.closes = @ + 1, !.users = @ \cup {c}]]

\* The top of the while loop for call c with locals f: the next fetch is issued, or
\* the loop is over and finally issues the close.
LoopTop(c, f, cs) ==
    IF LoopContinues(f.allRows, f.limit, f.hasMore)
    THEN LET t == CursorUsed(f.cursor, Len(cs))
         IN /\ fetcher' = [fetcher EXCEPT ![c] = [f EXCEPT !.pc = "fetch", !.target = t]]
            /\ cursors' = IssueFetch(cs, c, t)
    ELSE LET t == CursorUsed(f.cursor, Len(cs))
         IN /\ fetcher' = [fetcher EXCEPT ![c] = [f EXCEPT !.pc = "close", !.target = t]]
            /\ cursors' = IssueClose(cs, c, t)

\* fetchMessagesBatch(talker, offset, limit, ...) is called: the open is issued.
StartFetch(c, request) ==
    /\ fetcher[c].pc = "new"
    /\ fetcher' = [fetcher EXCEPT ![c] = [@ EXCEPT !.pc = "open", !.limit = request.limit,
                                                   !.offset = request.offset]]
    /\ UNCHANGED cursors
    /\ UNCHANGED besidesCursors

\* openMessageCursor settles for call c.
CursorOpens(c, outcome) ==
    /\ fetcher[c].pc = "open"
    /\ IF outcome = "cursor"
       THEN LET cs == Append(cursors, OpenedFor(c))
                f == [fetcher[c] EXCEPT !.cursor = Len(cs), !.allRows = <<>>,
                                        !.hasMore = TRUE, !.skipped = 0]
            IN LoopTop(c, f, cs)
       ELSE /\ fetcher' = [fetcher EXCEPT ![c] = [@ EXCEPT !.pc = "done"]]
            /\ UNCHANGED cursors
    /\ UNCHANGED besidesCursors

\* fetchMessageBatch settles for call c: k rows and the flag `more`, a failure or an
\* exception.
BatchSettles(c, outcome, k, more) ==
    /\ fetcher[c].pc = "fetch"
    /\ LET f == fetcher[c]
           t == f.target
           number == cursors[t].delivered + 1
           back == [cursors EXCEPT ![t] = [@ EXCEPT !.outstanding = @ - 1]]
           over == [f EXCEPT !.hasMore = FailedBatchHasMore(f.hasMore)]
       IN IF outcome = "rows"
          THEN /\ k <= BatchSizeFor(f.limit)
               /\ (number >= MaxBatches) => ~more
               /\ LET cs == [back EXCEPT ![t] = [@ EXCEPT !.delivered = number]]
                      got == [f EXCEPT !.consumed =
                                          Append(@, [cursor |-> t, batch |-> number])]
                      s == SkipOffset([i \in 1..k |-> 0], f.skipped, f.offset)
                  IN IF k = 0
                     THEN LoopTop(c, [got EXCEPT !.hasMore = FailedBatchHasMore(f.hasMore)], cs)
                     ELSE LoopTop(c, [got EXCEPT !.hasMore = more, !.skipped = s.skipped,
                                                 !.allRows = @ \o s.rows], cs)
          ELSE /\ k = 0 /\ ~more
               /\ LoopTop(c, over, back)
    /\ UNCHANGED besidesCursors

\* closeMessageCursor settles for call c, which resolves: its locals are gone, what
\* is kept is the handle it had and the batches it consumed.
CursorCloses(c) ==
    /\ fetcher[c].pc = "close"
    /\ fetcher' = [fetcher EXCEPT ![c] = [NoFetcher EXCEPT !.pc = "done",
                                                           !.cursor = fetcher[c].cursor,
                                                           !.consumed = fetcher[c].consumed]]
    /\ UNCHANGED cursors
    /\ UNCHANGED besidesCursors

CursorsIdle ==
    /\ fetcher = [c \in Fetchers |-> NoFetcher]
    /\ cursors = <<>>

(***************************************************************************)
(* GroupAnalyticsService.parallelLimit.  Indexes are 0-based as in the     *)
(* code; slot i of results is results[i + 1].                              *)
(***************************************************************************)
\* What fn may resolve with.
FnValues == {1, 2}

WorkerPerItem(limit, n) == n

\* Array(Math.min(limit, items.length))
WorkerCount(limit, n) == Min(limit, n)

ResultSlotByCompletion(index, done) == done

\* results[index] = await fn(items[index], index)
ResultSlot(index, done) == index

\* parallelLimit(items, limit, fn) up to `await Promise.all(workers)`: each runNext
\* runs to its first await, claiming the next index and calling fn for it.
ParallelLimit(n, limit) ==
    /\ plpc = "new"
    /\ LET w == WorkerCount(limit, n)
           \* worker k finds currentIndex = k - 1
           claims == [k \in 1..w |-> k - 1]
       IN /\ workers' = [k \in 1..w |-> IF claims[k] < n
                                         THEN [state |-> "await", index |-> claims[k]]
                                         ELSE [state |-> "done", index |-> 0]]
          /\ currentIndex' = Min(w, n)
          /\ invoked' = [i \in 1..n |-> IF i <= w THEN 1 ELSE 0]
    /\ plItems' = n
    /\ plLimit' = limit
    /\ results' = [i \in 1..n |-> 0]
    /\ returned' = [i \in 1..n |-> 0]
    /\ completed' = <<>>
    /\ plpc' = "running"
    /\ UNCHANGED besidesParallel

\* The fn invocation worker k awaits resolves with value: the result is stored and
\* the while loop goes round.
FnResolves(k, value) ==
    /\ k \in 1..Len(workers)
    /\ workers[k].state = "await"
    /\ LET index == workers[k].index
           slot == ResultSlot(index, Len(completed))
       IN /\ results' = [results EXCEPT ![slot + 1] = value]
          /\ returned' = [returned EXCEPT ![index + 1] = value]
          /\ completed' = Append(completed, index)
    /\ IF currentIndex < plItems
       THEN /\ workers' = [workers EXCEPT ![k] = [state |-> "await", index |-> currentIndex]]
            /\ invoked' = [invoked EXCEPT ![currentIndex + 1] = @ + 1]
            /\ currentIndex' = currentIndex + 1
       ELSE /\ workers' = [workers EXCEPT ![k] = [state |-> "done", index |-> 0]]
            /\ UNCHANGED <<invoked, currentIndex>>
    /\ UNCHANGED <<plpc, plItems, plLimit>>
    /\ UNCHANGED besidesParallel

\* The fn invocation worker k awaits rejects: runNext rejects, and with it
\* Promise.all and parallelLimit; the other workers go on.
FnRejects(k) ==
    /\ k \in 1..Len(workers)
    /\ workers[k].state = "await"
    /\ workers' = [workers EXCEPT ![k] = [state |-> "failed", index |-> workers[k].index]]
    /\ plpc' = "rejected"
    /\ UNCHANGED <<plItems, plLimit, currentIndex, results, invoked, returned, completed>>
    /\ UNCHANGED besidesParallel

\* Every runNext has returned: Promise.all resolves and parallelLimit returns results.
AllWorkersDone ==
    /\ plpc = "running"
    /\ \A k \in 1..Len(workers) : workers[k].state = "done"
    /\ plpc' = "resolved"
    /\ UNCHANGED <<plItems, plLimit, currentIndex, results, workers, invoked, returned,
                   completed>>
    /\ UNCHANGED besidesParallel

ParallelIdle ==
    /\ plpc = "new"
    /\ plItems = 0
    /\ plLimit = 0
    /\ currentIndex = 0
    /\ results = <<>>
    /\ workers = <<>>
    /\ invoked = <<>>
    /\ returned = <<>>
    /\ completed = <<>>

(***************************************************************************)
(* WindowsHelloService.verify.                                             *)
(***************************************************************************)
\* targetWindow || BrowserWindow.getFocusedWindow() || BrowserWindow.getAllWindows()[0]
WindowFor(targetWindow, focused) ==
    IF targetWindow # "none" THEN targetWindow
    ELSE IF focused # "none" THEN focused ELSE "main"

SlotKeptOnRejection(slot, outcome) == IF outcome = "rejected" THEN slot ELSE 0

\* .finally(() => { this.verificationPromise = null })
SlotAfterSettle(slot, outcome) == 0

\* verify(message, targetWindow) is called while `focused` has the focus.
Verify(message, targetWindow, focused) ==
    /\ Len(verifyCalls) < MaxVerifyCalls
    /\ LET call == [message |-> message, window |-> WindowFor(targetWindow, focused),
                    sawPending |-> \E r \in 1..Len(verifyRequests) :
                                      verifyRequests[r].state = "pending",
                    issued |-> FALSE, request |-> 0]
       IN IF verificationPromise # 0
          THEN /\ verifyCalls' = Append(verifyCalls,
                                        [call EXCEPT !.issued = FALSE,
                                                     !.request = verificationPromise])
               /\ UNCHANGED <<verificationPromise, verifyRequests>>
          ELSE /\ verifyRequests' = Append(verifyRequests,
                                           [message |-> message, hwnd |-> call.window,
                                            state |-> "pending"])
               /\ verificationPromise' = Len(verifyRequests) + 1
               /\ verifyCalls' = Append(verifyCalls,
                                        [call EXCEPT !.issued = TRUE,
                                                     !.request = Len(verifyRequests) + 1])
    /\ UNCHANGED besidesHello

\* The verifyUser request r settles: fulfilled (with success true or false) or
\* rejected; the finally callback runs before anyone awaiting the promise goes on.
VerifyUserSettles(r, outcome) ==
    /\ r \in 1..Len(verifyRequests)
    /\ verifyRequests[r].state = "pending"
    /\ verifyRequests' = [verifyRequests EXCEPT ![r].state = outcome]
    /\ verificationPromise' = SlotAfterSettle(verificationPromise, outcome)
    /\ UNCHANGED verifyCalls
    /\ UNCHANGED besidesHello

HelloIdle ==
    /\ verificationPromise = 0
    /\ verifyRequests = <<>>
    /\ verifyCalls = <<>>

(***************************************************************************)
(* HttpService.start and stop.  A server is starting from listen() until   *)
(* its listening callback or its error event, and listens from then until  *)
(* close() is called on it.                                                *)
(***************************************************************************)
DefaultPort == 5031

Ports == {DefaultPort, DefaultPort + 1}

Listening == {s \in 1..Len(servers) : servers[s].state = "listening"}

Starting == {s \in 1..Len(servers) : servers[s].state = "starting"}

\* if (this.running && this.server)
AlreadyStarted == running /\ server # 0

\* start(port) is called.
Start(p) ==
    /\ IF AlreadyStarted
       THEN /\ serverEvent' = "startResolved"
            /\ UNCHANGED <<server, port, servers>>
       ELSE /\ Len(servers) < MaxServers
            /\ port' = p
            /\ servers' = Append(servers, [port |-> p, state |-> "starting"])
            /\ server' = Len(servers) + 1
            /\ serverEvent' = "start"
    /\ UNCHANGED <<running, closing, stopCalls>>
    /\ UNCHANGED besidesServer

\* The callback of listen(): server s has the port and start resolves with success.
ListenCallback(s) ==
    /\ s \in Starting
    /\ \A t \in Listening : servers[t].port # servers[s].port
    /\ servers' = [servers EXCEPT ![s].state = "listening"]
    /\ running' = TRUE
    /\ serverEvent' = "startResolved"
    /\ UNCHANGED <<server, port, closing, stopCalls>>
    /\ UNCHANGED besidesServer

\* The error event of server s (the port is in use, by a server of the service or
\* by another program): start resolves with success = false.
ErrorEvent(s) ==
    /\ s \in Starting
    /\ servers' = [servers EXCEPT ![s].state = "failed"]
    /\ serverEvent' = "startResolved"
    /\ UNCHANGED <<server, running, port, closing, stopCalls>>
    /\ UNCHANGED besidesServer

\* stop() is called.  close() ends the listening of a server that listens; on a
\* server whose listen() is still under way the listen is abandoned or not
\* (abandoned says which), and close() has its callback called all the same.
Stop(abandoned) ==
    /\ stopCalls < MaxStops
    /\ stopCalls' = stopCalls + 1
    /\ IF server # 0
       THEN /\ servers' = [servers EXCEPT ![server].state =
                               IF @ = "listening" \/ (@ = "starting" /\ abandoned)
                               THEN "closed" ELSE @]
            /\ (abandoned => servers[server].state = "starting")
            /\ closing' = Append(closing, server)
            /\ serverEvent' = "stop"
            /\ UNCHANGED running
       ELSE /\ ~abandoned
            /\ running' = FALSE
            /\ serverEvent' = "stopResolved"
            /\ UNCHANGED <<servers, closing>>
    /\ UNCHANGED <<server, port>>
    /\ UNCHANGED besidesServer

\* The callback of server.close() for the i-th pending stop: stop resolves.
CloseCallback(i) ==
    /\ i \in 1..Len(closing)
    /\ running' = FALSE
    /\ server' = 0
    /\ closing' = SubSeq(closing, 1, i - 1) \o SubSeq(closing, i + 1, Len(closing))
    /\ serverEvent' = "stopResolved"
    /\ UNCHANGED <<port, servers, stopCalls>>
    /\ UNCHANGED besidesServer

ServerIdle ==
    /\ server = 0
    /\ running = FALSE
    /\ port = DefaultPort
    /\ servers = <<>>
    /\ closing = <<>>
    /\ stopCalls = 0
    /\ serverEvent = "none"

(***************************************************************************)
(* SnsPage.  The posts of the store are numbered 1..MaxPosts, newest       *)
(* first; a list of posts is the sequence of their numbers.                *)
(***************************************************************************)
MaxPosts == 22

MaxFilterChanges == 2

\* const limit = 20
PageLimit == 20

\* The last second of a day, counted from its first.
EndOfDay == 86399

\* Post id was created one second into its day; post MaxPosts on day 1.
CreateTime(id) == (MaxPosts + 1 - id) * (EndOfDay + 1) + 1

Author(id) == IF id % 2 = 1 THEN "a" ELSE "b"

Mentions(id, keyword) == keyword = "" \/ id % 3 = 0

JumpDay == (MaxPosts \div 2) * (EndOfDay + 1)

UserFilters == { <<>>, <<"a">> }

Keywords == { "", "k" }

JumpDates == { 0, JumpDay }

\* What getTimeline keeps: usernames empty is everyone, startTs and endTs 0 are
\* undefined.
TimelineKeeps(id, usernames, keyword, startTs, endTs) ==
    /\ (usernames = <<>> \/ \E i \in 1..Len(usernames) : usernames[i] = Author(id))
    /\ Mentions(id, keyword)
    /\ (startTs = 0 \/ CreateTime(id) >= startTs)
    /\ (endTs = 0 \/ CreateTime(id) <= endTs)

FirstOf(list, limit) == SubSeq(list, 1, Min(limit, Len(list)))

\* window.electronAPI.sns.getTimeline(limit, 0, usernames, keyword, startTs, endTs):
\* the newest limit posts kept.
GetTimeline(limit, usernames, keyword, startTs, endTs) ==
    FirstOf(SelectSeq([id \in 1..MaxPosts |-> id],
                      LAMBDA id : TimelineKeeps(id, usernames, keyword, startTs, endTs)),
            limit)

NoTimelineCall ==
    [kind |-> "none", usernames |-> <<>>, keyword |-> "", date |-> 0,
     limit |-> 0, startTs |-> 0, endTs |-> 0]

\* endTs of the first page: the end of the day jumped to.
ResetEndTs(date) == IF date # 0 THEN date + EndOfDay ELSE 0

\* endTs of the next older page: just before the last post listed.
OlderEndTs(list) == IF list # <<>> THEN CreateTime(list[Len(list)]) - 1 ELSE 0

\* loadPosts({ reset, direction }) as far as its first await, called from a
\* render whose filters are usernames, keyword and date; kind is reset, older or
\* newer.
LoadPosts(kind, usernames, keyword, date) ==
    IF loadingRef \/ (kind = "newer" /\ posts = <<>>)
    THEN UNCHANGED <<loading, loadingNewer, loadingRef, timelineCall>>
    ELSE /\ loadingRef' = TRUE
         /\ loading' = (loading \/ kind # "newer")
         /\ loadingNewer' = (loadingNewer \/ kind = "newer")
         /\ timelineCall' =
               [kind |-> kind, usernames |-> usernames, keyword |-> keyword, date |-> date,
                limit |-> PageLimit,
                startTs |-> IF kind = "newer" THEN CreateTime(posts[1]) + 1 ELSE 0,
                endTs |-> IF kind = "reset" THEN ResetEndTs(date)
                          ELSE IF kind = "older" THEN OlderEndTs(posts) ELSE 0]

\* The finally block of loadPosts.
LoadEnds ==
    /\ loading' = FALSE
    /\ loadingNewer' = FALSE
    /\ loadingRef' = FALSE
    /\ timelineCall' = NoTimelineCall

\* The page is mounted: the filter effect runs for the first time.
SnsMounted ==
    /\ snsEvent = "none"
    /\ snsEvent' = "mounted"
    /\ LoadPosts("reset", selectedUsernames, searchKeyword, jumpTargetDate)
    /\ UNCHANGED <<posts, snsHasMore, hasNewer, selectedUsernames, searchKeyword,
                   jumpTargetDate, filterChanges, timelineFailed, fetchedFor>>
    /\ UNCHANGED besidesSns

\* A filter is changed and, after the render, the effect on [selectedUsernames,
\* searchKeyword, jumpTargetDate] calls loadPosts({ reset: true }).
FilterChanged(usernames, keyword, date) ==
    /\ snsEvent # "none"
    /\ filterChanges < MaxFilterChanges
    /\ <<usernames, keyword, date>> # <<selectedUsernames, searchKeyword, jumpTargetDate>>
    /\ filterChanges' = filterChanges + 1
    /\ selectedUsernames' = usernames
    /\ searchKeyword' = keyword
    /\ jumpTargetDate' = date
    /\ snsEvent' = "filterChanged"
    /\ LoadPosts("reset", usernames, keyword, date)
    /\ UNCHANGED <<posts, snsHasMore, hasNewer, timelineFailed, fetchedFor>>
    /\ UNCHANGED besidesSns

\* handleScroll reaching the bottom (older) or the top (newer) of the list.
HandleScroll(direction) ==
    /\ snsEvent # "none"
    /\ ~loading /\ ~loadingNewer
    /\ IF direction = "older" THEN snsHasMore ELSE hasNewer
    /\ snsEvent' = "scrolled"
    /\ LoadPosts(direction, selectedUsernames, searchKeyword, jumpTargetDate)
    /\ UNCHANGED <<posts, snsHasMore, hasNewer, selectedUsernames, searchKeyword,
                   jumpTargetDate, filterChanges, timelineFailed, fetchedFor>>
    /\ UNCHANGED besidesSns

\* The posts of timeline that are not in list.
UniqueNewer(timeline, list) ==
    SelectSeq(timeline, LAMBDA id : \A i \in 1..Len(list) : list[i] # id)

\* The getTimeline call of a reset resolved with timeline.
ResetLoaded(call, timeline) ==
    /\ posts' = timeline
    /\ snsHasMore' = (Len(timeline) >= call.limit)
    /\ fetchedFor' = <<call.usernames, call.keyword, call.date>>
    /\ snsEvent' = "postsSet"
    /\ IF timeline # <<>>
       THEN /\ timelineCall' = [call EXCEPT !.kind = "probe", !.limit = 1,
                                            !.startTs = CreateTime(timeline[1]) + 1,
                                            !.endTs = 0]
            /\ UNCHANGED <<hasNewer, loading, loadingNewer, loadingRef>>
       ELSE /\ hasNewer' = FALSE
            /\ LoadEnds

\* The getTimeline call for older posts resolved with timeline.
OlderLoaded(call, timeline) ==
    /\ posts' = posts \o timeline
    /\ snsHasMore' = IF Len(timeline) < call.limit THEN FALSE ELSE snsHasMore
    /\ IF timeline # <<>>
       THEN /\ fetchedFor' = <<call.usernames, call.keyword, call.date>>
            /\ snsEvent' = "postsSet"
       ELSE /\ snsEvent' = "settled"
            /\ UNCHANGED fetchedFor
    /\ UNCHANGED hasNewer
    /\ LoadEnds

\* The getTimeline call for newer posts resolved with timeline, of which fresh
\* are not listed yet.
NewerLoaded(call, timeline, fresh) ==
    /\ posts' = fresh \o posts
    /\ hasNewer' = (timeline # <<>> /\ Len(timeline) >= call.limit)
    /\ IF fresh # <<>>
       THEN /\ fetchedFor' = <<call.usernames, call.keyword, call.date>>
            /\ snsEvent' = "postsSet"
       ELSE /\ snsEvent' = "settled"
            /\ UNCHANGED fetchedFor
    /\ UNCHANGED snsHasMore
    /\ LoadEnds

\* The getTimeline call loadPosts awaits settles: it resolves with the posts
\* (ok), resolves with success false (failed) or rejects (throws).
TimelineSettles(outcome) ==
    /\ timelineCall.kind \in {"reset", "older", "newer"}
    /\ IF outcome = "ok"
       THEN /\ IF timelineCall.kind = "reset"
               THEN ResetLoaded(timelineCall,
                                GetTimeline(timelineCall.limit, timelineCall.usernames,
                                            timelineCall.keyword, timelineCall.startTs,
                                            timelineCall.endTs))
               ELSE IF timelineCall.kind = "older"
               THEN OlderLoaded(timelineCall,
                                GetTimeline(timelineCall.limit, timelineCall.usernames,
                                            timelineCall.keyword, timelineCall.startTs,
                                            timelineCall.endTs))
               ELSE NewerLoaded(timelineCall,
                                GetTimeline(timelineCall.limit, timelineCall.usernames,
                                            timelineCall.keyword, timelineCall.startTs,
                                            timelineCall.endTs),
                                UniqueNewer(GetTimeline(timelineCall.limit,
                                                        timelineCall.usernames,
                                                        timelineCall.keyword,
                                                        timelineCall.startTs,
                                                        timelineCall.endTs), posts))
            /\ UNCHANGED timelineFailed
       ELSE /\ timelineFailed' = (timelineFailed \/ timelineCall.kind = "reset")
            /\ hasNewer' = IF outcome = "failed" /\ timelineCall.kind = "newer"
                           THEN FALSE ELSE hasNewer
            /\ snsEvent' = "settled"
            /\ LoadEnds
            /\ UNCHANGED <<posts, snsHasMore, fetchedFor>>
    /\ UNCHANGED <<selectedUsernames, searchKeyword, jumpTargetDate, filterChanges>>
    /\ UNCHANGED besidesSns

\* The getTimeline call that probes for posts newer than the first page settles.
ProbeSettles(outcome) ==
    /\ timelineCall.kind = "probe"
    /\ hasNewer' = IF outcome = "throws" THEN hasNewer
                   ELSE (outcome = "ok"
                         /\ GetTimeline(timelineCall.limit, timelineCall.usernames,
                                        timelineCall.keyword, timelineCall.startTs,
                                        timelineCall.endTs) # <<>>)
    /\ snsEvent' = "settled"
    /\ LoadEnds
    /\ UNCHANGED <<posts, snsHasMore, selectedUsernames, searchKeyword, jumpTargetDate,
                   filterChanges, timelineFailed, fetchedFor>>
    /\ UNCHANGED besidesSns

SnsIdle ==
    /\ posts = <<>>
    /\ loading = FALSE
    /\ loadingNewer = FALSE
    /\ snsHasMore = TRUE
    /\ hasNewer = FALSE
    /\ loadingRef = FALSE
    /\ selectedUsernames = <<>>
    /\ searchKeyword = ""
    /\ jumpTargetDate = 0
    /\ timelineCall = NoTimelineCall
    /\ filterChanges = 0
    /\ timelineFailed = FALSE
    /\ fetchedFor = << <<>>, "", 0 >>
    /\ snsEvent = "none"

(***************************************************************************)
(* LockScreen.                                                             *)
(***************************************************************************)
MaxHelloCalls == 2

MaxSubmits == 2

Passwords == { "", "a", "b" }

\* sha256(message): the digest in hexadecimal.
Sha256(message) ==
    CASE message = "" -> "e3b0c44298fc1c149afbf4c8996fb92427ae41e4649b934ca495991b7852b855"
      [] message = "a" -> "ca978112ca1bbdcafac231b39a23dc4da786eff8147c4e72b9807785afee48bb"
      [] message = "b" -> "3e23e8160039594a33894f6564e1b1348bbd7a0088d42c4acb73eeaed59c009d"

\* What the configuration may hold as the password's hash: nothing, or the
\* digest of a password.
StoredHashes == { "", Sha256(""), Sha256("a") }

HashesMatchOrUnset(inputHash, stored) == inputHash = stored \/ stored = ""

\* inputHash === storedHash
HashesMatch(inputHash, stored) == inputHash = stored

\* handleUnlock(), called after cause.
HandleUnlock(cause) ==
    /\ isUnlocked' = TRUE
    /\ timers' = timers + 1
    /\ unlockedBy' = Append(unlockedBy, cause)

\* verifyHello() past its guard, as far as its await.
HelloAsked ==
    /\ isVerifying' = TRUE
    /\ lockError' = ""
    /\ helloCalls' = Append(helloCalls, "pending")

\* The mount effect: quickStartHello().  It calls verifyHello from the first
\* render, where isVerifying and isUnlocked are false.
QuickStartHello(shouldUseHello) ==
    /\ lockpc = "mounted"
    /\ lockpc' = "started"
    /\ IF shouldUseHello
       THEN /\ showHello' = TRUE
            /\ HelloAsked
       ELSE UNCHANGED <<showHello, isVerifying, lockError, helloCalls>>
    /\ UNCHANGED <<password, isUnlocked, storedHash, submits, timers, onUnlockCalls,
                   unlockedBy>>
    /\ UNCHANGED besidesLock

\* The Windows Hello button is clicked: verifyHello().
VerifyHello ==
    /\ showHello
    /\ Len(helloCalls) < MaxHelloCalls
    /\ ~(isVerifying \/ isUnlocked)
    /\ HelloAsked
    /\ UNCHANGED <<lockpc, password, isUnlocked, showHello, storedHash, submits, timers,
                   onUnlockCalls, unlockedBy>>
    /\ UNCHANGED besidesLock

\* window.electronAPI.auth.hello() of the i-th call settles: it resolves with
\* success true or false, or it rejects.
HelloSettles(i, outcome) ==
    /\ i \in 1..Len(helloCalls)
    /\ helloCalls[i] = "pending"
    /\ helloCalls' = [helloCalls EXCEPT ![i] = outcome]
    /\ IF outcome = "success"
       THEN /\ HandleUnlock([via |-> "hello", password |-> "", stored |-> ""])
            /\ UNCHANGED lockError
       ELSE /\ lockError' = outcome
            /\ UNCHANGED <<isUnlocked, timers, unlockedBy>>
    /\ isVerifying' = FALSE
    /\ UNCHANGED <<lockpc, password, showHello, storedHash, submits, onUnlockCalls>>
    /\ UNCHANGED besidesLock

\* The input's onChange.
SetPassword(value) ==
    /\ value # password
    /\ password' = value
    /\ UNCHANGED <<lockpc, lockError, isVerifying, isUnlocked, showHello, storedHash,
                   helloCalls, submits, timers, onUnlockCalls, unlockedBy>>
    /\ UNCHANGED besidesLock

\* handlePasswordSubmit() past its guard, as far as its first await.
HandlePasswordSubmit ==
    /\ Len(submits) < MaxSubmits
    /\ ~(password = "" \/ isUnlocked)
    /\ isVerifying' = TRUE
    /\ lockError' = ""
    /\ submits' = Append(submits, [password |-> password, state |-> "pending"])
    /\ UNCHANGED <<lockpc, password, isUnlocked, showHello, storedHash, helloCalls, timers,
                   onUnlockCalls, unlockedBy>>
    /\ UNCHANGED besidesLock

\* The awaits of the i-th handlePasswordSubmit settle: the stored hash was read
\* and the input hashed (read), or one of the two threw (threw).
SubmitSettles(i, outcome) ==
    /\ i \in 1..Len(submits)
    /\ submits[i].state = "pending"
    /\ submits' = [submits EXCEPT ![i].state = outcome]
    /\ IF outcome = "read" /\ HashesMatch(Sha256(submits[i].password), storedHash)
       THEN /\ HandleUnlock([via |-> "password", password |-> submits[i].password,
                             stored |-> storedHash])
            /\ UNCHANGED <<password, lockError, isVerifying>>
       ELSE /\ lockError' = IF outcome = "read" THEN "wrongPassword" ELSE "threw"
            /\ password' = IF outcome = "read" THEN "" ELSE password
            /\ isVerifying' = FALSE
            /\ UNCHANGED <<isUnlocked, timers, unlockedBy>>
    /\ UNCHANGED <<lockpc, showHello, storedHash, helloCalls, onUnlockCalls>>
    /\ UNCHANGED besidesLock

\* A timer set by handleUnlock runs out: onUnlock().
UnlockTimerFires ==
    /\ timers > 0
    /\ timers' = timers - 1
    /\ onUnlockCalls' = onUnlockCalls + 1
    /\ UNCHANGED <<lockpc, password, lockError, isVerifying, isUnlocked, showHello,
                   storedHash, helloCalls, submits, unlockedBy>>
    /\ UNCHANGED besidesLock

\* The component as constructed, whatever the stored hash.
LockFresh ==
    /\ lockpc = "mounted"
    /\ password = ""
    /\ lockError = ""
    /\ isVerifying = FALSE
    /\ isUnlocked = FALSE
    /\ showHello = FALSE
    /\ helloCalls = <<>>
    /\ submits = <<>>
    /\ timers = 0
    /\ onUnlockCalls = 0
    /\ unlockedBy = <<>>

LockIdle == LockFresh /\ storedHash = ""

ExtIdle == CursorsIdle /\ ParallelIdle /\ HelloIdle /\ ServerIdle /\ SnsIdle /\ LockIdle

AuxIdle == MediaIdle /\ VarintIdle /\ ExtIdle

MessagesIdle ==
    /\ mpc = "idle"
    /\ req = NoReq
    /\ allRows = <<>>
    /\ hasMore = FALSE
    /\ skipped = 0
    /\ pending = NoResult
    /\ fmbResult = NoResult
    /\ page = NoPage
    /\ resp = NoResp
    /\ cur = NewCursor

InitMessages ==
    /\ MessagesIdle
    /\ nRows \in 0..MaxRows
    /\ KeystreamIdle
    /\ NicknamesIdle
    /\ AuxIdle

NextMessages ==
    \/ \E t \in BOOLEAN, l \in LimitParams, o \in OffsetParams,
          kw \in KeywordParams, f \in FormatParams : HandleMessages(t, l, o, kw, f)
    \/ \E out \in {"cursor", "fail", "throw"}, mt \in BOOLEAN : OpenReturns(out, mt)
    \/ \E out \in {"rows", "fail", "throw"}, k \in 0..MaxRows, more \in BOOLEAN,
          mt \in BOOLEAN : FetchReturns(out, k, more, mt)
    \/ \E th \in BOOLEAN : CloseReturns(th)
    \/ \E th \in BOOLEAN : Respond(th)

SpecMessages == InitMessages /\ [][NextMessages]_vars

InitKeystream ==
    /\ KeystreamIdle
    /\ MessagesIdle
    /\ nRows = 0
    /\ NicknamesIdle
    /\ AuxIdle

NextKeystream ==
    \/ \E c \in Calls, key \in Keys, size \in Sizes, loader \in Loaders :
          GetKeystream(c, key, size, loader)
    \/ OnRuntimeInitialized
    \/ \E c \in Calls : InitRejected(c)
    \/ \E c \in Calls, run \in Runs : Generate(c, run)

SpecKeystream == InitKeystream /\ [][NextKeystream]_vars

InitNicknames ==
    /\ ppc = "room"
    /\ extBuffer \in Blobs(MaxItems)
    /\ candidates \in CandidateLists
    /\ scanIndex = 0
    /\ prevIndex = -1
    /\ iters = 0
    /\ nicknameMap = <<>>
    /\ roomResult = NoRoomResult
    /\ accepted = <<>>
    /\ lookup = <<>>
    /\ groupNickname = <<>>
    /\ MessagesIdle
    /\ nRows = 0
    /\ KeystreamIdle
    /\ AuxIdle

NextNicknames ==
    \/ \E outcome \in {"throw", "fail", "norows", "row"},
          kind \in {"falsy", "other", "buffer", "string"} :
          GetGroupNicknamesForRoom(outcome, kind)
    \/ ScanStep
    \/ ScanReturn
    \/ \E lookupCandidates \in LookupLists : ResolveMember(lookupCandidates)

SpecNicknames == InitNicknames /\ [][NextNicknames]_vars

\* The same operations on blobs that hold exactly one record.
InitOneRecord ==
    /\ ppc = "room"
    /\ extBuffer \in {Record(id, nick) : id \in RecordIds, nick \in RecordNicks}
    /\ candidates \in CandidateLists
    /\ scanIndex = 0
    /\ prevIndex = -1
    /\ iters = 0
    /\ nicknameMap = <<>>
    /\ roomResult = NoRoomResult
    /\ accepted = <<>>
    /\ lookup = <<>>
    /\ groupNickname = <<>>
    /\ MessagesIdle
    /\ nRows = 0
    /\ KeystreamIdle
    /\ AuxIdle

SpecOneRecord == InitOneRecord /\ [][NextNicknames]_vars

InitMedia ==
    /\ MediaIdle
    /\ VarintIdle
    /\ ExtIdle
    /\ MessagesIdle
    /\ nRows = 0
    /\ KeystreamIdle
    /\ NicknamesIdle

NextMedia ==
    \/ \E m \in MediaItems : RunEffect(m)
    \/ Unmount
    \/ \E r \in inflight, result \in ProxyResults : VideoProxyReturns(r, result)
    \/ \E r \in inflight, result \in ProxyResults : ImageProxyReturns(r, result)
    \/ \E r \in inflight, result \in ProxyResults : LiveProxyReturns(r, result)
    \/ \E r \in inflight, event \in {"drawn", "nocontext", "throws", "error"} :
          FrameEvent(r, event)
    \/ ImgError

SpecMedia == InitMedia /\ [][NextMedia]_vars

InitVarint ==
    /\ vpc = "call"
    /\ vBuffer \in VarintBuffers
    /\ vOffset \in 0..Min(MaxVarintOffset, Len(vBuffer))
    /\ vLimit \in 0..Len(vBuffer)
    /\ vResult = NoVarint
    /\ MediaIdle
    /\ ExtIdle
    /\ MessagesIdle
    /\ nRows = 0
    /\ KeystreamIdle
    /\ NicknamesIdle

NextVarint == ReadVarint

SpecVarint == InitVarint /\ [][NextVarint]_vars

InitCursors ==
    /\ ServerIdle
    /\ CursorsIdle
    /\ ParallelIdle
    /\ HelloIdle
    /\ SnsIdle
    /\ LockIdle
    /\ MediaIdle
    /\ VarintIdle
    /\ MessagesIdle
    /\ nRows = 0
    /\ KeystreamIdle
    /\ NicknamesIdle

NextCursors ==
    \/ \E c \in Fetchers, request \in FetchRequests : StartFetch(c, request)
    \/ \E c \in Fetchers, outcome \in {"cursor", "fail"} : CursorOpens(c, outcome)
    \/ \E c \in Fetchers, outcome \in {"rows", "fail", "throw"},
          k \in 0..2, more \in BOOLEAN : BatchSettles(c, outcome, k, more)
    \/ \E c \in Fetchers : CursorCloses(c)

SpecCursors == InitCursors /\ [][NextCursors]_vars

InitParallel ==
    /\ ServerIdle
    /\ ParallelIdle
    /\ CursorsIdle
    /\ HelloIdle
    /\ SnsIdle
    /\ LockIdle
    /\ MediaIdle
    /\ VarintIdle
    /\ MessagesIdle
    /\ nRows = 0
    /\ KeystreamIdle
    /\ NicknamesIdle

NextParallel ==
    \/ \E n \in 0..MaxPlItems, limit \in 1..MaxPlLimit : ParallelLimit(n, limit)
    \/ \E k \in 1..MaxPlLimit, value \in FnValues : FnResolves(k, value)
    \/ \E k \in 1..MaxPlLimit : FnRejects(k)
    \/ AllWorkersDone

SpecParallel == InitParallel /\ [][NextParallel]_vars

InitHello ==
    /\ ServerIdle
    /\ HelloIdle
    /\ ParallelIdle
    /\ CursorsIdle
    /\ SnsIdle
    /\ LockIdle
    /\ MediaIdle
    /\ VarintIdle
    /\ MessagesIdle
    /\ nRows = 0
    /\ KeystreamIdle
    /\ NicknamesIdle

NextHello ==
    \/ \E message \in {"unlock", "confirm"}, targetWindow \in {"none", "lock"},
          focused \in {"none", "chat"} : Verify(message, targetWindow, focused)
    \/ \E r \in 1..MaxVerifyCalls, outcome \in {"success", "failure", "rejected"} :
          VerifyUserSettles(r, outcome)

SpecHello == InitHello /\ [][NextHello]_vars

InitServer ==
    /\ ServerIdle
    /\ HelloIdle
    /\ ParallelIdle
    /\ CursorsIdle
    /\ SnsIdle
    /\ LockIdle
    /\ MediaIdle
    /\ VarintIdle
    /\ MessagesIdle
    /\ nRows = 0
    /\ KeystreamIdle
    /\ NicknamesIdle

NextServer ==
    \/ \E p \in Ports : Start(p)
    \/ \E s \in 1..MaxServers : ListenCallback(s)
    \/ \E s \in 1..MaxServers : ErrorEvent(s)
    \/ \E abandoned \in BOOLEAN : Stop(abandoned)
    \/ \E i \in 1..MaxStops : CloseCallback(i)

SpecServer == InitServer /\ [][NextServer]_vars

InitSns ==
    /\ SnsIdle
    /\ LockIdle
    /\ ServerIdle
    /\ HelloIdle
    /\ ParallelIdle
    /\ CursorsIdle
    /\ MediaIdle
    /\ VarintIdle
    /\ MessagesIdle
    /\ nRows = 0
    /\ KeystreamIdle
    /\ NicknamesIdle

NextSns ==
    \/ SnsMounted
    \/ \E usernames \in UserFilters, keyword \in Keywords, date \in JumpDates :
          FilterChanged(usernames, keyword, date)
    \/ \E direction \in {"older", "newer"} : HandleScroll(direction)
    \/ \E outcome \in {"ok", "failed", "throws"} : TimelineSettles(outcome)
    \/ \E outcome \in {"ok", "failed", "throws"} : ProbeSettles(outcome)

SpecSns == InitSns /\ [][NextSns]_vars

\* Every getTimeline call the page awaits is answered in the end.
SpecSnsFair ==
    /\ SpecSns
    /\ WF_vars(\E outcome \in {"ok", "failed", "throws"} : TimelineSettles(outcome))
    /\ WF_vars(\E outcome \in {"ok", "failed", "throws"} : ProbeSettles(outcome))

InitLock ==
    /\ LockFresh
    /\ storedHash \in StoredHashes
    /\ SnsIdle
    /\ ServerIdle
    /\ HelloIdle
    /\ ParallelIdle
    /\ CursorsIdle
    /\ MediaIdle
    /\ VarintIdle
    /\ MessagesIdle
    /\ nRows = 0
    /\ KeystreamIdle
    /\ NicknamesIdle

NextLock ==
    \/ \E shouldUseHello \in BOOLEAN : QuickStartHello(shouldUseHello)
    \/ VerifyHello
    \/ \E i \in 1..MaxHelloCalls, outcome \in {"success", "failure", "rejected"} :
          HelloSettles(i, outcome)
    \/ \E value \in Passwords : SetPassword(value)
    \/ HandlePasswordSubmit
    \/ \E i \in 1..MaxSubmits, outcome \in {"read", "threw"} : SubmitSettles(i, outcome)
    \/ UnlockTimerFires

SpecLock == InitLock /\ [][NextLock]_vars

(***************************************************************************)
(* Claims about the message pagination.                                    *)
(***************************************************************************)
\* fetchMessagesBatch has resolved (handleMessages went on with its result).
Resolved == mpc \in {"respond", "done"} /\ cur.opens = 1

LocalIds(messages) == [i \in 1..Len(messages) |-> messages[i].localId]

\* Positions offset+1 .. offset+limit of the n ordered rows of the range.
Window(n, offset, limit) == [i \in 1..Max(0, Min(limit, n - offset)) |-> offset + i]

\* C1: with limit >= 1 and a cursor that delivers the rows of the range in order in
\* batches of at most min(limit, 500) rows (no batch fetch failing), the page returned
\* holds exactly the rows at positions offset .. offset+limit-1, in order, none
\* skipped or repeated, and never more than limit rows.
C1_PageIsOffsetWindow ==
    (Resolved /\ fmbResult.success /\ ~cur.failed)
        => /\ req.queryLimit >= 1
           /\ LocalIds(fmbResult.messages) = Window(nRows, req.queryOffset, req.queryLimit)
           /\ Len(fmbResult.messages) <= req.queryLimit

\* The second page of a 5-row range read in pages of 3, pulled in two batches or more.
C1_Witness ==
    /\ Resolved /\ fmbResult.success /\ ~cur.failed
    /\ nRows = 5 /\ req.queryOffset = 3 /\ req.queryLimit = 3
    /\ cur.batches >= 2
    /\ LocalIds(fmbResult.messages) = <<4, 5>>
    /\ ~fmbResult.hasMore

\* C2: the hasMore a call returns is true iff the cursor signalled more data on the
\* last batch pulled or more than limit rows were accumulated before trimming; a page
\* that is empty because the range holds no rows has hasMore = FALSE.
C2_HasMoreIffSignalOrTrim ==
    (Resolved /\ fmbResult.success)
        => /\ fmbResult.hasMore <=> (cur.lastSignal \/ Len(allRows) > req.queryLimit)
           /\ (nRows = 0 => (fmbResult.messages = <<>> /\ ~fmbResult.hasMore))

\* The cursor's last batch signalled the end, yet rows were trimmed: hasMore is true.
C2_Witness ==
    /\ Resolved /\ fmbResult.success
    /\ ~cur.lastSignal /\ cur.batches >= 2
    /\ Len(allRows) > req.queryLimit
    /\ fmbResult.hasMore

\* C3: a cursor that was opened is closed exactly once before the call resolves, on
\* the normal path, after an empty or failed batch and after an exception of a batch
\* fetch or of the row mapping; when the open fails no fetch and no close is issued
\* and the call resolves with success = FALSE, which handleMessages answers with an
\* error response.
C3_CursorClosedExactlyOnce ==
    /\ cur.closes <= 1
    /\ (cur.closes = 1 => cur.opened)
    /\ (mpc = "close" => ~cur.outstanding)
    /\ (Resolved /\ cur.opened) => cur.closes = 1
    /\ (Resolved /\ ~cur.opened)
          => /\ cur.closes = 0 /\ cur.fetches = 0
             /\ ~fmbResult.success
             /\ resp.status = 500

\* A batch fetch or the row mapping threw after rows had been pulled.
C3_Witness ==
    /\ Resolved /\ cur.opened /\ cur.threw /\ cur.batches >= 1
    /\ cur.closes = 1
    /\ ~fmbResult.success

\* C22: when a batch fetch reports failure after the cursor was opened (and neither
\* the row mapping nor the close throws), fetchMessagesBatch pulls no further batch,
\* closes the cursor and resolves with success = TRUE, the rows accumulated so far
\* trimmed to limit, and hasMore = FALSE: the same result as at the end of the data.
C22_FailedBatchEndsPage ==
    /\ (cur.failed => (~cur.outstanding /\ cur.fetches = cur.batches + 1))
    /\ (Resolved /\ cur.failed /\ ~cur.threw /\ ~cur.closeThrew)
          => /\ cur.closes = 1
             /\ fmbResult.success
             /\ ~fmbResult.hasMore
             /\ Len(allRows) < req.queryLimit
             /\ LocalIds(fmbResult.messages) = allRows

\* The second batch fetch failed after the first had delivered rows that are kept.
C22_Witness ==
    /\ Resolved /\ cur.failed /\ ~cur.threw /\ ~cur.closeThrew
    /\ cur.batches = 1 /\ cur.fetches = 2 /\ cur.pos < nRows
    /\ fmbResult.success /\ ~fmbResult.hasMore
    /\ Len(fmbResult.messages) >= 1

\* The keyword pass as the claim states it: rows whose parsed content (raw content
\* when there is none) holds the keyword, letter case ignored.
ContentOf(msg) == IF msg.parsedContent = <<>> THEN msg.rawContent ELSE msg.parsedContent

SameIgnoringCase(s, t) ==
    Len(s) = Len(t) /\ \A i \in 1..Len(s) : ToLowerChar(s[i]) = ToLowerChar(t[i])

HoldsIgnoringCase(content, keyword) ==
    \E i \in 0..(Len(content) - Len(keyword)) :
        SameIgnoringCase(SubSeq(content, i + 1, i + Len(keyword)), keyword)

Filtered ==
    LET P(m) == HoldsIgnoringCase(ContentOf(m), req.keyword)
    IN SelectSeq(fmbResult.messages, P)

KeywordResponse == mpc = "done" /\ resp.status = 200 /\ req.keyword # <<>>

KeywordSlice ==
    /\ req.queryOffset = 0 /\ req.queryLimit = KeywordQueryLimit
    /\ resp.messages = Slice(Filtered, req.offset, req.offset + req.limit)

\* C9 as stated: every response to a keyword query carries the slice of the filtered
\* rows and hasMore = (number of filtered rows > offset + limit).
C9_Original ==
    KeywordResponse
        => /\ KeywordSlice
           /\ resp.hasMoreField
           /\ resp.hasMore <=> (Len(Filtered) > req.offset + req.limit)

\* C9 amended: with a keyword that is non-empty after trimming, the store is queried
\* with offset 0 and limit 10000 and the response holds filtered[offset ..
\* offset+limit-1] in order; a json response carries hasMore = (number of filtered
\* rows > offset + limit), a chatlab response carries no hasMore field.
C9_KeywordPage ==
    KeywordResponse
        => /\ KeywordSlice
           /\ resp.hasMoreField <=> (req.format = "json")
           /\ resp.hasMoreField
                 => (resp.hasMore <=> (Len(Filtered) > req.offset + req.limit))

\* A json keyword response that skips a matching row and leaves one behind.
C9_Witness ==
    /\ KeywordResponse /\ req.format = "json"
    /\ req.offset = 1 /\ req.limit = 1
    /\ Len(Filtered) = 3 /\ Len(fmbResult.messages) = 5
    /\ Len(resp.messages) = 1
    /\ resp.hasMore

(***************************************************************************)
(* Claims about the keystream service.                                     *)
(***************************************************************************)
AllCallsDone == \A c \in Calls : calls[c].pc = "done"

\* C4: the loader script is run at most once, however the getKeystream calls
\* interleave: a call that arrives while the initialisation is in flight, or after
\* it completed, waits for the one initPromise and does not run the loader again.
C4_LoaderRunsAtMostOnce ==
    /\ loaderRuns <= 1
    /\ \A c \in Calls : calls[c].pc # "new" => (loaderRuns = 1 /\ initPromise # "null")

\* A call joined the initialisation in flight and every call completed.
C4_Witness ==
    /\ joined /\ AllCallsDone
    /\ settled.result = "ok"
    /\ loaderRuns = 1

BytesOf(bytes) == {bytes[i] : i \in 1..Len(bytes)}

\* C5: with calls in flight at once, a call that returns bytes returns those the
\* output callback captured during its own generate step, none of another call's.
C5_OwnCapture ==
    settled.result = "ok"
        => /\ settled.delivered.set
           /\ settled.delivered.bytes
                 = IsaacOutput(calls[settled.call].key, calls[settled.call].size)
           /\ Len(settled.out) = Len(settled.delivered.bytes)
           /\ BytesOf(settled.out) = BytesOf(settled.delivered.bytes)

\* Two calls with different keys and lengths were in flight at once; the second to
\* generate found the first one's capture in place and returned its own bytes.
C5_Witness ==
    /\ joined /\ AllCallsDone
    /\ calls[1].key # calls[2].key /\ calls[1].size # calls[2].size
    /\ settled.stale
    /\ settled.result = "ok"

\* C6: the bytes returned are the captured bytes in reverse order, output[i] =
\* captured[n-1-i], the capture being the copy made when the callback ran.
C6_ReversedCapture ==
    settled.result = "ok"
        => LET n == Len(settled.delivered.bytes)
           IN /\ Len(settled.out) = n
              /\ \A i \in 0..(n - 1) :
                    settled.out[i + 1] = settled.delivered.bytes[(n - 1 - i) + 1]

\* Two bytes or more were returned after the module's memory had been overwritten.
C6_Witness ==
    /\ settled.result = "ok"
    /\ Len(settled.out) >= 2
    /\ settled.out # settled.delivered.bytes
    /\ heap = EmptyHeap

C8_NoCallbackRejects ==
    (settled.generated /\ ~settled.delivered.set)
        => (settled.result = "rejected" /\ settled.out = <<>>)

\* The callback did not run although an earlier call's capture was still stored.
C8_Witness ==
    /\ settled.generated /\ ~settled.delivered.set
    /\ settled.stale
    /\ settled.result = "rejected"

\* The loader script ran and threw (or the assets were missing).
LoaderThrew == loaderRuns >= 1 /\ ~module.loaded

\* C23: once the WASM initialisation has failed, the rejected promise is retained:
\* the initialisation is not attempted again, and every getKeystream call that
\* settles rejects with that same error without a cipher object being instantiated.
C23_InitFailureRetained ==
    LoaderThrew
        => /\ initPromise = "rejected"
           /\ loaderRuns = 1
           /\ ~wasmLoaded
           /\ settled.call # 0
                 => /\ settled.result = "rejected"
                    /\ settled.error = "init"
                    /\ settled.instantiated = 0 /\ ~settled.generated

\* The second call, made after the initialisation failed, was rejected with the
\* error of the first.
C23_Witness ==
    /\ LoaderThrew
    /\ AllCallsDone
    /\ settled.call = MaxCalls
    /\ settled.result = "rejected" /\ settled.error = "init"
    /\ loaderRuns = 1

\* C17: every getKeystream call that instantiates a cipher object exposing a
\* release operation (delete) generates with it and releases it exactly once
\* before the call settles, whether the call resolves or rejects.
C17_ReleasedOnEveryPath ==
    (settled.result \in {"ok", "rejected"} /\ settled.instantiated = 1 /\ module.hasDelete)
        => settled.released = 1

(***************************************************************************)
(* Claims about the nickname parser.                                       *)
(***************************************************************************)
\* The least a blob must hold for a record to be accepted: a 0x0A tag, a length
\* byte, four identifier bytes, then a 0x12 tag, a length byte and two bytes.
HasRecordShape(buf) ==
    \E i \in 0..(Len(buf) - 1), j \in 0..(Len(buf) - 1) :
        /\ At(buf, i) = 10
        /\ j >= i + 6
        /\ At(buf, j) = 18
        /\ j + 4 <= Len(buf)

\* C10: the parser never raises and always terminates, the scan index growing on
\* every iteration; it returns a table for every blob and candidate list, the empty
\* table when the blob holds no acceptable record, and getGroupNicknamesForRoom
\* returns an empty table instead of passing a failure on.
C10_ParserTotal ==
    /\ iters > 0 => scanIndex > prevIndex
    /\ scanIndex <= Len(extBuffer)
    /\ iters <= Max(0, Len(extBuffer) - 2)
    /\ ppc = "done"
          => /\ roomResult.returned /\ ~roomResult.failure
             /\ (iters = 0 \/ ~HasRecordShape(extBuffer)) => roomResult.table = <<>>

\* A blob with a record shape and an ill-formed byte, scanned to the end with
\* nothing accepted.
C10_Witness ==
    /\ ppc = "done" /\ roomResult.returned
    /\ iters >= 5
    /\ HasRecordShape(extBuffer)
    /\ \E i \in 1..Len(extBuffer) : extBuffer[i] = 128
    /\ roomResult.table = <<>>

\* The parser ran over the blob and returned its table.
ParseReturned == ppc \in {"done", "resolved"} /\ iters > 0

StringOf(bytes) == BufferToString(bytes, 0, Len(bytes))

\* id, ignoring case, is one of the candidates passed, or none were passed.
AmongCandidates(id) ==
    \/ candidates = <<>>
    \/ \E i \in 1..Len(candidates) : ToLowerCase(candidates[i]) = ToLowerCase(id)

CleanNick(nick) == Trim(StripControl(StringOf(nick)))

\* C11 as stated: a blob of one record whose id passes the identifier heuristics
\* and is among the candidates, and whose nick passes the nickname heuristics,
\* gives a table in which id and lowercase(id) both map to nick.
C11_Original ==
    \A id \in RecordIds, nick \in RecordNicks :
        ( /\ ParseReturned
          /\ extBuffer = Record(id, nick)
          /\ isLikelyMemberId(StringOf(id))
          /\ AmongCandidates(Trim(StringOf(id)))
          /\ isLikelyNickname(StringOf(nick)) )
        => /\ MapGet(roomResult.table, StringOf(id)) = StringOf(nick)
           /\ MapGet(roomResult.table, ToLowerCase(StringOf(id))) = StringOf(nick)

\* C11, amended: for a blob of one record with an id field of at most 96 bytes and
\* a nick field of at most 128 bytes, where the trimmed id passes the identifier
\* heuristics and is among the candidates, and nick with its control characters
\* removed and its blanks trimmed passes the nickname heuristics, the table maps
\* both the trimmed id and its lowercase form to that cleaned nickname.
C11_RecordYieldsBothKeys ==
    \A id \in RecordIds, nick \in RecordNicks :
        ( /\ ParseReturned
          /\ extBuffer = Record(id, nick)
          /\ Len(id) <= 96 /\ Len(nick) <= 128
          /\ isLikelyMemberId(Trim(StringOf(id)))
          /\ AmongCandidates(Trim(StringOf(id)))
          /\ isLikelyNickname(CleanNick(nick)) )
        => /\ MapGet(roomResult.table, Trim(StringOf(id))) = CleanNick(nick)
           /\ MapGet(roomResult.table, ToLowerCase(Trim(StringOf(id)))) = CleanNick(nick)
           /\ CleanNick(nick) # <<>>

\* The record "abcd " -> " Al" parsed with candidates that hold "ABCD": the table
\* has the keys "abcd" only, mapped to "Al".
C11_Witness ==
    /\ ParseReturned
    /\ extBuffer = Record(<<97, 98, 99, 100, 32>>, <<32, 65, 108>>)
    /\ candidates # <<>>
    /\ roomResult.table = << [key |-> <<97, 98, 99, 100>>, value |-> <<65, 108>>] >>

\* Some 0x12 field of 1..128 bytes of the blob holds text that, with its control
\* characters removed and its blanks trimmed, is value.
FromNickField(buf, value) ==
    \E p \in 0..(Len(buf) - 1) :
        /\ At(buf, p) = 18
        /\ LET info == readVarint(buf, p + 1, Len(buf))
               start == info.next
               end == start + info.value.lo
           IN /\ info.ok
              /\ NumberGT(info.value, 0) /\ ~NumberGT(info.value, 128)
              /\ end <= Len(buf)
              /\ value = Trim(StripControl(BufferToString(buf, start, end)))

\* wxid_[a-z0-9_]+
LooksLikeWxid(value) ==
    /\ Len(value) >= 6
    /\ SubSeq(value, 1, 5) = WxidPrefix
    /\ \A i \in 6..Len(value) :
          (value[i] >= 97 /\ value[i] <= 122) \/ IsDigit(value[i]) \/ value[i] = 95

NicknameAcceptable(value) ==
    /\ value # <<>>
    /\ Len(value) = 1 => (value[1] >= 13312 /\ value[1] <= 40959)
    /\ ~Includes(value, AtChatroom)
    /\ ~LooksLikeWxid(value)
    /\ \E i \in 1..Len(value) : value[i] \notin {34, 39, 64}

\* C12: every nickname in the table (and every nickname the scan accepted) comes
\* from a field of 1..128 bytes and, control characters stripped, is non-empty, not
\* a single non-CJK character, holds no "@chatroom", is not of the form
\* wxid_[a-z0-9_]+ and is not made of quotes and "@" only; "@" and "wxid_x" are
\* never stored.
C12_StoredNicknamesAcceptable ==
    /\ \A i \in 1..Len(nicknameMap) :
          /\ NicknameAcceptable(nicknameMap[i].value)
          /\ FromNickField(extBuffer, nicknameMap[i].value)
          /\ nicknameMap[i].value \notin {<<64>>, <<119, 120, 105, 100, 95, 120>>}
    /\ \A i \in 1..Len(accepted) : NicknameAcceptable(accepted[i].nickname)

\* The blob abcd -> "@", wxyz -> U+4E2D scanned to the end: only the second record
\* is in the table.
C12_Witness ==
    /\ ParseReturned
    /\ \E rest \in Fragments :
          extBuffer = <<10, 4, 97, 98, 99, 100, 18, 1, 64>> \o rest
    /\ Len(accepted) = 1
    /\ roomResult.table = << [key |-> <<119, 120, 121, 122>>, value |-> <<20013>>] >>

\* Some length-prefixed field of 1..96 bytes of the blob holds the text of key, or
\* text whose lowercase form is key.
FromIdField(buf, key) ==
    \E p \in 0..(Len(buf) - 1) :
        /\ At(buf, p) = 10
        /\ LET info == readVarint(buf, p + 1, Len(buf))
               start == info.next
               end == start + info.value.lo
               text == Trim(BufferToString(buf, start, end))
           IN /\ info.ok
              /\ NumberGT(info.value, 0) /\ ~NumberGT(info.value, 96)
              /\ end <= Len(buf)
              /\ key \in {text, ToLowerCase(text)}

IdentifierShaped(key) ==
    /\ Len(key) >= 4 /\ Len(key) <= 80
    /\ IsLetter(key[1])
    /\ \A i \in 1..Len(key) : IsIdChar(key[i])
    /\ ~Includes(key, AtChatroom)

KeysWellFormed ==
    \A i \in 1..Len(nicknameMap) :
        /\ FromIdField(extBuffer, nicknameMap[i].key)
        /\ IdentifierShaped(nicknameMap[i].key)

TriedIds == buildIdCandidates(lookup)

\* The positions of the table whose key is id ignoring case.
HitsIgnoringCase(id) ==
    {k \in 1..Len(roomResult.table) :
        ToLowerCase(roomResult.table[k].key) = ToLowerCase(id)}

\* The first i in 1..n with P(i)
FirstIndex(n, P(_)) == CHOOSE i \in 1..n : P(i) /\ \A j \in 1..(i - 1) : ~P(j)

\* C14: the result is the nickname of the first candidate, in candidate order, with
\* an exact-case key in the table; when no candidate has one, the first candidate
\* that matches keys ignoring case decides: its nickname if exactly one entry
\* matches, the empty string if several do; and the empty string if nothing matches.
C14_ExactThenUniqueIgnoringCase ==
    ppc = "resolved" =>
        LET n == Len(TriedIds)
            Exact(i) == MapHas(roomResult.table, TriedIds[i])
            Loose(i) == HitsIgnoringCase(TriedIds[i]) # {}
        IN IF \E i \in 1..n : Exact(i)
           THEN groupNickname = MapGet(roomResult.table, TriedIds[FirstIndex(n, Exact)])
           ELSE IF \E i \in 1..n : Loose(i)
           THEN LET hits == HitsIgnoringCase(TriedIds[FirstIndex(n, Loose)])
                IN IF Cardinality(hits) = 1
                   THEN \A k \in hits : groupNickname = roomResult.table[k].value
                   ELSE groupNickname = <<>>
           ELSE groupNickname = <<>>

\* Lookup "WXYZ", "abcd" in a table with the keys wxyz and abcd: the exact key of
\* the second candidate wins over the case-insensitive match of the first.
C14_Witness ==
    /\ ppc = "resolved"
    /\ lookup = << <<87, 88, 89, 90>>, <<97, 98, 99, 100>> >>
    /\ MapHas(roomResult.table, <<119, 120, 121, 122>>)
    /\ MapHas(roomResult.table, <<97, 98, 99, 100>>)
    /\ groupNickname = MapGet(roomResult.table, <<97, 98, 99, 100>>)
    /\ groupNickname # MapGet(roomResult.table, <<119, 120, 121, 122>>)

\* Two accepted records whose identifiers differ in letter case only, neither of
\* them written in lowercase, with different nicknames.
CaseCollision(a, b) ==
    /\ accepted[a].id # accepted[b].id
    /\ ToLowerCase(accepted[a].id) = ToLowerCase(accepted[b].id)
    /\ accepted[a].nickname # accepted[b].nickname
    /\ ToLowerCase(accepted[a].id) \notin {accepted[a].id, accepted[b].id}

\* C15: when the blob holds two accepted records whose identifiers differ only in
\* letter case and whose nicknames differ, a lookup through the lowercase form of
\* the identifier returns neither nickname: not from the table's lowercase key and
\* not from resolveGroupNicknameByCandidates asked for the lowercase identifier.
C15_LowercaseLookupSuppressed ==
    \A a \in 1..Len(accepted), b \in 1..Len(accepted) :
        (ppc = "resolved" /\ CaseCollision(a, b))
            => LET low == ToLowerCase(accepted[a].id)
                   nicks == {accepted[a].nickname, accepted[b].nickname}
               IN /\ MapGet(roomResult.table, low) \notin nicks
                  /\ lookup = <<low>> => groupNickname \notin nicks

\* The length-prefixed field whose length varint starts at pos: where its bytes
\* start and end, and whether the length is readable, in 1..max and within the blob.
FieldAt(buf, pos, max) ==
    LET info == readVarint(buf, pos, Len(buf))
        end == info.next + info.value.lo
    IN [ok |-> /\ info.ok
               /\ NumberGT(info.value, 0) /\ ~NumberGT(info.value, max)
               /\ end <= Len(buf),
        start |-> info.next, end |-> end]

\* At i stands a 0x0A field holding a valid identifier.
IdentifierAt(buf, i) ==
    /\ At(buf, i) = 10
    /\ FieldAt(buf, i + 1, 96).ok
    /\ isLikelyMemberId(Trim(BufferToString(buf, FieldAt(buf, i + 1, 96).start,
                                             FieldAt(buf, i + 1, 96).end)))

IdentifierTextAt(buf, i) ==
    Trim(BufferToString(buf, FieldAt(buf, i + 1, 96).start, FieldAt(buf, i + 1, 96).end))

IdEndAt(buf, i) == FieldAt(buf, i + 1, 96).end

\* The identifier at i is followed by a 0x12 field of 1..128 bytes.
NicknameFieldAfter(buf, i) ==
    /\ IdEndAt(buf, i) < Len(buf)
    /\ At(buf, IdEndAt(buf, i)) = 18
    /\ FieldAt(buf, IdEndAt(buf, i) + 1, 128).ok

NickEndAt(buf, i) == FieldAt(buf, IdEndAt(buf, i) + 1, 128).end

\* The identifier at i is kept out by a non-empty candidate set.
FilteredOutAt(buf, i) ==
    /\ CandidateSet(candidates) # {}
    /\ ToLowerCase(IdentifierTextAt(buf, i)) \notin CandidateSet(candidates)

\* C18: when the candidate set is non-empty and the scanner, at some index, meets a
\* record whose identifier is valid but not in the set, it skips the identifier
\* field and the 0x12 nickname field after it: the scan resumes at the end of the
\* nickname field.
C18_WholeRecordSkipped ==
    ( /\ iters > 0
      /\ IdentifierAt(extBuffer, prevIndex)
      /\ FilteredOutAt(extBuffer, prevIndex)
      /\ NicknameFieldAfter(extBuffer, prevIndex) )
        => scanIndex = NickEndAt(extBuffer, prevIndex)

\* The bytes at i form a record the parser accepts.
AcceptedAt(buf, i) ==
    /\ IdentifierAt(buf, i)
    /\ ~FilteredOutAt(buf, i)
    /\ NicknameFieldAfter(buf, i)
    /\ isLikelyNickname(Trim(StripControl(
           BufferToString(buf, FieldAt(buf, IdEndAt(buf, i) + 1, 128).start,
                          NickEndAt(buf, i)))))

\* C19 as stated, for bytes the candidate filter does not keep out: when the bytes
\* at index i form no accepted record the next attempt starts at i + 1, and only
\* after an accepted record does the scan jump past the end of the record.
C19_Original ==
    (iters > 0 /\ ~(IdentifierAt(extBuffer, prevIndex) /\ FilteredOutAt(extBuffer, prevIndex)))
        => IF AcceptedAt(extBuffer, prevIndex)
           THEN scanIndex = NickEndAt(extBuffer, prevIndex)
           ELSE scanIndex = prevIndex + 1

\* C19, amended: when the bytes at i hold no valid identifier field (wrong tag,
\* unreadable or out-of-range length, field beyond the blob, invalid identifier)
\* the next attempt starts at i + 1; when the identifier is valid and passes the
\* candidate filter but no well-formed nickname field follows, it starts at the end
\* of the identifier field; when a well-formed nickname field follows, it starts
\* at the end of that field, the nickname accepted or rejected.
C19_ResumePositions ==
    iters > 0 =>
        IF ~IdentifierAt(extBuffer, prevIndex)
        THEN scanIndex = prevIndex + 1
        ELSE ~FilteredOutAt(extBuffer, prevIndex) =>
                IF NicknameFieldAfter(extBuffer, prevIndex)
                THEN scanIndex = NickEndAt(extBuffer, prevIndex)
                ELSE scanIndex = IdEndAt(extBuffer, prevIndex)

\* A valid identifier with no well-formed nickname field after it: the scan went
\* on at the end of the identifier field, several bytes further.
C19_Witness ==
    /\ iters > 0
    /\ IdentifierAt(extBuffer, prevIndex)
    /\ ~FilteredOutAt(extBuffer, prevIndex)
    /\ ~NicknameFieldAfter(extBuffer, prevIndex)
    /\ scanIndex = IdEndAt(extBuffer, prevIndex)
    /\ scanIndex > prevIndex + 4

\* Byte k of the varint that starts at vOffset.
VarintByte(k) == At(vBuffer, vOffset + k)

\* Byte k ends the varint: it lies before the limit, its high bit is clear and the
\* high bit of every byte before it is set.
EndsAt(m) ==
    /\ vOffset + m < vLimit
    /\ VarintByte(m) < 128
    /\ \A k \in 0..(m - 1) : VarintByte(k) >= 128

\* The sum of (b_k & 0x7F) * 2^(7k) for k from j to m, in units of 2^(7j).
RECURSIVE GroupSum(_, _)
GroupSum(j, m) ==
    IF j > m THEN 0 ELSE (VarintByte(j) % 128) + 128 * GroupSum(j + 1, m)

\* The sum of (b_k & 0x7F) * 2^(7k) for k in 0..m, as hi * 2^28 + lo.
ExactSum(m) == [hi |-> GroupSum(4, m), lo |-> GroupSum(0, Min(m, 3))]

\* a - b for numbers less than 2^28 apart
Difference(a, b) == (a.hi - b.hi) * Limb + (a.lo - b.lo)

\* v is a double nearest to the integer n of at least 2^53: a multiple of the
\* spacing of doubles around n, at most half a spacing away.
NearestDouble(v, n) ==
    LET unit == IF n.hi < Pow2(26) THEN 2 ELSE IF n.hi < Pow2(27) THEN 4 ELSE 8
    IN /\ v.lo % unit = 0
       /\ 2 * Difference(v, n) <= unit
       /\ 2 * Difference(n, v) <= unit

\* C20 as stated: readVarint returns the sum of (b_k & 0x7F) * 2^(7k) over the
\* bytes up to and including the first with a clear high bit, and next just after
\* that byte, offset < next <= limit; it returns null exactly when no such byte
\* occurs within the first 8 bytes from offset and before limit.
C20_Original ==
    vpc = "done" =>
        IF \E m \in 0..7 : EndsAt(m)
        THEN \A m \in 0..7 :
                EndsAt(m) => /\ vResult.ok
                             /\ vResult.value = ExactSum(m)
                             /\ vResult.next = vOffset + m + 1
                             /\ vOffset < vResult.next /\ vResult.next <= vLimit
        ELSE ~vResult.ok

\* C20, amended: as stated whenever the sum is below 2^53; for a larger sum (an
\* eight-byte encoding whose last byte is 16 or more) value is the double nearest
\* to the sum.
C20_VarintValue ==
    vpc = "done" =>
        IF \E m \in 0..7 : EndsAt(m)
        THEN \A m \in 0..7 :
                EndsAt(m) => /\ vResult.ok
                             /\ IF ExactSum(m).hi < Pow2(25)
                                THEN vResult.value = ExactSum(m)
                                ELSE NearestDouble(vResult.value, ExactSum(m))
                             /\ vResult.next = vOffset + m + 1
                             /\ vOffset < vResult.next /\ vResult.next <= vLimit
        ELSE ~vResult.ok

\* 81 80 80 80 80 80 80 10 read from offset 0: the sum is 2^53 + 1, the value
\* returned 2^53, next 8.
C20_Witness ==
    /\ vpc = "done"
    /\ vBuffer = <<129, 128, 128, 128, 128, 128, 128, 16>>
    /\ vOffset = 0
    /\ vResult.ok
    /\ vResult.value = [hi |-> Pow2(25), lo |-> 0]
    /\ vResult.next = 8

(***************************************************************************)
(* Claims about fetchMessagesBatch calls running side by side.             *)
(***************************************************************************)
\* Batches 1..n of cursor h, in the order the store delivered them.
InOrder(h, n) == [i \in 1..n |-> [cursor |-> h, batch |-> i]]

\* C21: across fetchMessagesBatch calls running concurrently, each call fetches from
\* and closes only the cursor it opened itself; for each cursor at most one batch
\* fetch is outstanding at a time, batches are consumed in the order delivered, and
\* no fetch is issued on a cursor after its close.
C21_OwnCursorOneFetchAtATime ==
    /\ \A h \in 1..Len(cursors) :
          /\ cursors[h].users \subseteq {cursors[h].owner}
          /\ cursors[h].outstanding <= 1
          /\ ~cursors[h].overlap
          /\ ~cursors[h].lateFetch
          /\ cursors[h].closes <= 1
    /\ \A c \in Fetchers :
          /\ fetcher[c].cursor # 0 => cursors[fetcher[c].cursor].owner = c
          /\ fetcher[c].pc \in {"fetch", "close"} => fetcher[c].target = fetcher[c].cursor
          /\ fetcher[c].consumed = InOrder(fetcher[c].cursor, Len(fetcher[c].consumed))

\* Two calls have each consumed a batch of their own cursor and each has its next
\* fetch outstanding, both cursors open.
C21_Witness ==
    /\ fetcher[1].pc = "fetch" /\ fetcher[2].pc = "fetch"
    /\ Len(fetcher[1].consumed) = 1 /\ Len(fetcher[2].consumed) = 1
    /\ fetcher[1].cursor # fetcher[2].cursor
    /\ \A h \in 1..2 : cursors[h].outstanding = 1 /\ cursors[h].closes = 0

(***************************************************************************)
(* Claims about parallelLimit.                                             *)
(***************************************************************************)
\* The fn invocations that have started and not yet settled.
InFlight == {k \in 1..Len(workers) : workers[k].state = "await"}

\* C24: during parallelLimit(items, limit, fn) with limit >= 1 the number of fn
\* invocations started and not yet settled never exceeds min(limit, items.length),
\* in whatever order the invocations resolve or reject.
C24_InFlightBounded ==
    plpc # "new"
        => /\ Cardinality(InFlight) <= plLimit
           /\ Cardinality(InFlight) <= plItems

\* Three items under limit 2: the first two invocations have settled, one of them
\* by rejecting, and the worker left has the last one in flight.
C24_Witness ==
    /\ plItems = 3 /\ plLimit = 2
    /\ plpc = "rejected"
    /\ currentIndex = 3
    /\ Cardinality(InFlight) = 1
    /\ Len(completed) = 1

\* C25: fn is never invoked twice for an index, and when every invocation has
\* resolved, parallelLimit has invoked fn exactly once for each index and resolves
\* with results[i] the value fn returned for items[i], whatever the order in which
\* the invocations completed.
C25_EachIndexOnceResultsInPlace ==
    /\ \A i \in 1..Len(invoked) : invoked[i] <= 1
    /\ plpc = "resolved"
          => /\ Len(results) = plItems
             /\ \A i \in 1..plItems :
                   /\ invoked[i] = 1
                   /\ returned[i] # 0
                   /\ results[i] = returned[i]

\* Three items under limit 2 completed in the order 1, 0, 2 with different values.
C25_Witness ==
    /\ plpc = "resolved"
    /\ plItems = 3 /\ plLimit = 2
    /\ completed = <<1, 0, 2>>
    /\ results = <<1, 2, 1>>

(***************************************************************************)
(* Claims about WindowsHelloService.verify.                                *)
(***************************************************************************)
Outstanding == {r \in 1..Len(verifyRequests) : verifyRequests[r].state = "pending"}

\* C26: verify never has more than one verifyUser request outstanding: a call made
\* while one is pending issues nothing and gets that pending request (its own
\* message and window are not used), and once the request has settled, fulfilled
\* or rejected, the slot is clear and the next call issues a new request.
C26_OneVerificationAtATime ==
    /\ Cardinality(Outstanding) <= 1
    /\ Outstanding = IF verificationPromise = 0 THEN {} ELSE {verificationPromise}
    /\ \A c \in 1..Len(verifyCalls) :
          LET call == verifyCalls[c] IN
          /\ call.issued <=> ~call.sawPending
          /\ call.request \in 1..Len(verifyRequests)
          /\ call.issued => /\ verifyRequests[call.request].message = call.message
                            /\ verifyRequests[call.request].hwnd = call.window
          /\ ~call.issued => \E d \in 1..(c - 1) :
                                 /\ verifyCalls[d].issued
                                 /\ verifyCalls[d].request = call.request

\* The second call joined the first one's request with another message and window;
\* that request was rejected, and the third call issued a request of its own.
C26_Witness ==
    /\ Len(verifyCalls) = 3
    /\ verifyCalls[2].request = 1 /\ ~verifyCalls[2].issued
    /\ verifyCalls[2].message # verifyRequests[1].message
    /\ verifyCalls[2].window # verifyRequests[1].hwnd
    /\ verifyRequests[1].state = "rejected"
    /\ verifyCalls[3].issued /\ verifyCalls[3].request = 2

(***************************************************************************)
(* Claims about HttpService.start and stop.                                *)
(***************************************************************************)
\* C27: for every interleaving of start() and stop() calls, a second start() issued
\* before the first has begun listening included, at most one server created by
\* the service is listening at any time, and once a stop() has resolved with no
\* start() pending, isRunning() is false and no server created by the service is
\* still listening.
C27_OneServerStoppedByStop ==
    /\ Cardinality(Listening) <= 1
    /\ (serverEvent = "stopResolved" /\ Starting = {})
          => (~running /\ Listening = {})

(***************************************************************************)
(* Claims about SnsPage.                                                   *)
(***************************************************************************)
FirstPage ==
    GetTimeline(PageLimit, selectedUsernames, searchKeyword, 0, ResetEndTs(jumpTargetDate))

\* C28: after any change of the filters (selected users, search keyword, jump
\* date), also one made while a loadPosts call is in flight, the post list comes
\* to hold exactly the first page of the current filters unless a first-page
\* fetch failed, and posts are never set from results that were fetched for
\* filters no longer current.
C28_FirstPageOfCurrentFilters ==
    /\ [](snsEvent = "postsSet"
             => fetchedFor = <<selectedUsernames, searchKeyword, jumpTargetDate>>)
    /\ (snsEvent = "filterChanged") ~> (posts = FirstPage \/ timelineFailed)

(***************************************************************************)
(* Claims about LockScreen.                                                *)
(***************************************************************************)
HelloSucceeded == \E i \in 1..Len(helloCalls) : helloCalls[i] = "success"

\* A password submission whose awaits settled without throwing, for a password
\* that is not empty and whose digest is the stored hash.
PasswordVerified(entered) ==
    /\ entered # ""
    /\ Sha256(entered) = storedHash
    /\ \E i \in 1..Len(submits) : submits[i] = [password |-> entered, state |-> "read"]

\* C29: onUnlock is called, or set to be called, only by handleUnlock calls each
\* of which followed an auth.hello() that resolved with success true, or the
\* submission of a non-empty password whose SHA-256 digest equals the stored
\* hash; without either, isUnlocked stays false and onUnlock is not called.
C29_UnlockOnlyAfterVerification ==
    /\ onUnlockCalls + timers = Len(unlockedBy)
    /\ isUnlocked = (unlockedBy # <<>>)
    /\ \A i \in 1..Len(unlockedBy) :
          IF unlockedBy[i].via = "hello"
          THEN HelloSucceeded
          ELSE /\ unlockedBy[i].stored = storedHash
               /\ PasswordVerified(unlockedBy[i].password)

C29_Witness ==
    /\ onUnlockCalls = 1
    /\ unlockedBy = << [via |-> "password", password |-> "a", stored |-> Sha256("a")] >>
    /\ \E i \in 1..Len(helloCalls) : helloCalls[i] \in {"failure", "rejected"}
    /\ \E i \in 1..Len(submits) : submits[i] = [password |-> "b", state |-> "read"]

\* C30: onUnlock is invoked at most once per mounted LockScreen, whatever the
\* interleaving of Hello results and password submissions.
C30_OnUnlockAtMostOnce == onUnlockCalls <= 1

(***************************************************************************)
(* Claims about MediaItem.                                                 *)
(***************************************************************************)
\* The handler that ran last was given success = false by the proxy.
ProxyJustFailed == lastEvent = "proxyFailed"

\* A step in which a proxy request settles, the handler that ran last having been
\* given success = false.
ProxyFailedStep == lastEvent' = "proxyFailed" /\ inflight' # inflight

\* C16 as stated: when the proxy request reports failure, the item shows the
\* original remote URL and does not enter the error state, image or video.
C16_Original ==
    [][ProxyFailedStep => (displaySrc' = targetUrl(media') /\ (error' => error))]_vars

\* C16, amended: when the proxy request of a live effect reports failure, an item
\* that is not a video takes the original remote URL as its source and the failure
\* leaves its error state as it was; a video item enters the error state and
\* leaves the decrypting state, its displayed source staying the original URL.
C16_FailureFallback ==
    [][ProxyFailedStep =>
          /\ displaySrc' = targetUrl(media')
          /\ ~isDecrypting'
          /\ IF isVideo(media') THEN error' /\ thumbSrc' = <<>>
             ELSE error' = error /\ thumbSrc' = targetUrl(media')]_vars

\* After a re-render, an image with a thumbnail whose proxy request failed: it
\* shows the thumbnail URL and is not in the error state.
C16_Witness ==
    /\ ProxyJustFailed
    /\ ~isVideo(media)
    /\ media.thumb # <<>>
    /\ thumbSrc = media.thumb
    /\ ~error
    /\ effects = 2

====
